---- MODULE Spec2Model ----
(***************************************************************************)
(* Model of the traceroute API server (src/backend/server.js): the GeoCache *)
(* class, geolocate with its two providers, runTraceroute with its two      *)
(* decoders, enrichWithGeo and the /trace and /whoami handlers.             *)
(*                                                                          *)
(* Strings the code matches with regular expressions (addresses, host       *)
(* names, targets, the lines of the trace utility's output) are sequences   *)
(* of one-character strings, so that the regular expressions are computed.  *)
(* JS null, undefined and "" are all falsy wherever the code tests these    *)
(* strings, and are the empty sequence here.  Numbers with a fraction are   *)
(* integers in thousandths.                                                 *)
(***************************************************************************)
EXTENDS Integers, Sequences, FiniteSets, TLC

VARIABLES
    now,      \* Date.now(), in milliseconds
    cache,    \* geoCache.cache: the Map of GeoCache, key -> {value, timestamp}
    req,      \* the requests in flight, one record per request slot
    started,  \* number of requests accepted so far
    cop,      \* the last GeoCache operation of the cache harness and its result
    written,  \* history, per key: the last value set and when (cache harness);
              \* the last record a provider got accepted, when, by whom (server)
    fn,       \* the pure-function harness: the input drawn and the result
    ui        \* the page of a front end: its globals, the map, timers, fetches

vars == <<now, cache, req, started, cop, written, fn, ui>>

----------------------------------------------------------------------------
(* Bounds of the model *)

\* clock ticks the model lets pass
MaxTicks == 2

\* requests the server accepts in one behaviour
MaxRequests == 2

----------------------------------------------------------------------------
(* Configuration: CONFIG of server.js *)

CACHE_TTL_MS == 3600000

\* One clock tick: the time-to-live, so that an entry's age takes the values
\* 0, TTL (the last instant it is served) and 2 TTL (expired).
TickMs == CACHE_TTL_MS

----------------------------------------------------------------------------
(* Characters and strings *)

Digits == <<"0", "1", "2", "3", "4", "5", "6", "7", "8", "9">>

IsDigit(c) == \E i \in 1..10 : Digits[i] = c

DigitVal(c) == (CHOOSE i \in 1..10 : Digits[i] = c) - 1

\* \s of a JS regular expression, for the characters the model uses
IsSpace(c) == c \in {" ", "\t", "\r"}

IsLetter(c) ==
    c \in {"a", "b", "c", "d", "e", "f", "g", "h", "i", "j", "k", "l", "m",
           "n", "o", "p", "q", "r", "s", "t", "u", "v", "w", "x", "y", "z",
           "A", "B", "C", "D", "E", "F", "G", "H", "I", "J", "K", "L", "M",
           "N", "O", "P", "Q", "R", "S", "T", "U", "V", "W", "X", "Y", "Z"}

\* s has t at position i (1-based)
HasAt(s, i, t) ==
    /\ i >= 1
    /\ i + Len(t) - 1 <= Len(s)
    /\ \A k \in 1..Len(t) : s[i + k - 1] = t[k]

StartsWith(s, t) == HasAt(s, 1, t)

\* number of digits of s from position i on
RECURSIVE DigitRun(_, _)
DigitRun(s, i) ==
    IF i <= Len(s) /\ IsDigit(s[i]) THEN 1 + DigitRun(s, i + 1) ELSE 0

\* number of \s characters of s from position i on
RECURSIVE SpaceRun(_, _)
SpaceRun(s, i) ==
    IF i <= Len(s) /\ IsSpace(s[i]) THEN 1 + SpaceRun(s, i + 1) ELSE 0

\* the decimal numeral s[i .. i+n-1] as a number (parseInt of a digit string)
RECURSIVE DecVal(_, _, _)
DecVal(s, i, n) ==
    IF n = 0 THEN 0 ELSE DecVal(s, i, n - 1) * 10 + DigitVal(s[i + n - 1])

\* the decimal numeral of a natural number, as a string
RECURSIVE NatStr(_)
NatStr(n) ==
    IF n < 10 THEN <<Digits[n + 1]>> ELSE NatStr(n \div 10) \o <<Digits[(n % 10) + 1]>>

\* the dotted-quad string of four octets
Dotted(o) ==
    NatStr(o[1]) \o <<".">> \o NatStr(o[2]) \o <<".">> \o NatStr(o[3]) \o <<".">> \o NatStr(o[4])

\* JS null / undefined / "" of a string-valued field
NoStr == <<>>

----------------------------------------------------------------------------
(* isPrivateIP *)

\* 172\.(1[6-9]|2[0-9]|3[0-1])\.  at the start of ip
Is172Private(ip) ==
    /\ StartsWith(ip, <<"1", "7", "2", ".">>)
    /\ Len(ip) >= 7
    /\ \/ ip[5] = "1" /\ ip[6] \in {"6", "7", "8", "9"}
       \/ ip[5] = "2" /\ IsDigit(ip[6])
       \/ ip[5] = "3" /\ ip[6] \in {"0", "1"}
    /\ ip[7] = "."

\* isPrivateIP without the alternative 192\.168\.
isPrivateIPBug(ip) ==
    IF ip = NoStr THEN TRUE
    ELSE \/ StartsWith(ip, <<"1", "0", ".">>)
         \/ StartsWith(ip, <<"1", "2", "7", ".">>)
         \/ Is172Private(ip)
         \/ StartsWith(ip, <<"1", "6", "9", ".", "2", "5", "4", ".">>)
         \/ StartsWith(ip, <<":", ":", "1">>)
         \/ StartsWith(ip, <<"f", "e", "8", "0", ":">>)

\* isPrivateIP: if (!ip) return true, then the test of the regular expression
isPrivateIP(ip) ==
    IF ip = NoStr THEN TRUE
    ELSE \/ StartsWith(ip, <<"1", "0", ".">>)
         \/ StartsWith(ip, <<"1", "2", "7", ".">>)
         \/ StartsWith(ip, <<"1", "9", "2", ".", "1", "6", "8", ".">>)
         \/ Is172Private(ip)
         \/ StartsWith(ip, <<"1", "6", "9", ".", "2", "5", "4", ".">>)
         \/ StartsWith(ip, <<":", ":", "1">>)
         \/ StartsWith(ip, <<"f", "e", "8", "0", ":">>)

----------------------------------------------------------------------------
(* Addresses of the model *)

IP_GOOGLE == Dotted(<<8, 8, 8, 8>>)
IP_CLOUDFLARE == Dotted(<<1, 1, 1, 1>>)
IP_LAN == Dotted(<<192, 168, 1, 1>>)

PublicIPs == {IP_GOOGLE, IP_CLOUDFLARE}

----------------------------------------------------------------------------
(* Geolocation records and GeoCache *)

\* JS null as a geolocation value (the negative result)
NULL == [null |-> TRUE]

\* `if (cached)`, `if (geo)`: null is falsy, an object is truthy
Truthy(v) == v # NULL

\* this.cache.delete(key)
MapDelete(c, key) == [k \in DOMAIN c \ {key} |-> c[k]]

\* this.cache.set(key, entry)
MapSet(c, key, entry) == [k \in DOMAIN c \cup {key} |-> IF k = key THEN entry ELSE c[k]]

\* Date.now() - entry.timestamp > this.ttl
ExpiredBug(entry, t) == t - entry.timestamp >= CACHE_TTL_MS

Expired(entry, t) == t - entry.timestamp > CACHE_TTL_MS

\* a get that sweeps: it removes every expired entry, not only the one read
GeoCacheGetSweeps(c, key, t) ==
    LET kept == [k \in {k \in DOMAIN c : ~Expired(c[k], t)} |-> c[k]]
    IN  [ret |-> IF key \in DOMAIN kept THEN kept[key].value ELSE NULL, cache |-> kept]

\* GeoCache.get at time t: the value returned and the map afterwards
GeoCacheGet(c, key, t) ==
    IF key \notin DOMAIN c THEN [ret |-> NULL, cache |-> c]
    ELSE IF Expired(c[key], t) THEN [ret |-> NULL, cache |-> MapDelete(c, key)]
    ELSE [ret |-> c[key].value, cache |-> c]

\* a set that gives the new value to an existing entry and leaves its timestamp
GeoCacheSetKeepsAge(c, key, value, t) ==
    MapSet(c, key, [value |-> value,
                    timestamp |-> IF key \in DOMAIN c THEN c[key].timestamp ELSE t])

\* GeoCache.set at time t: the map afterwards
GeoCacheSet(c, key, value, t) == MapSet(c, key, [value |-> value, timestamp |-> t])

\* GeoCache.size
GeoCacheSize(c) == Cardinality(DOMAIN c)

----------------------------------------------------------------------------
(* Provider responses *)

\* A JSON value of a coordinate field: a number (typeof "number"), a string,
\* null, or no field at all.  n is the number in thousandths of a degree.
Num(n) == [t |-> "num", n |-> n]
StrNum(n) == [t |-> "str", n |-> n]
NullVal == [t |-> "null", n |-> 0]
Absent == [t |-> "absent", n |-> 0]

\* a text field of a response body that is not there
NoField == "<undefined>"

\* JS null as the value of a text field of a normalized record
JsNull == "<null>"

\* `x || null` on a text field
OrNull(x) == IF x \in {NoField, ""} THEN JsNull ELSE x

\* `x || y` on text fields
OrElse(x, y) == IF x \in {NoField, ""} THEN y ELSE x

\* What a provider knows about an address: the body it answers with when it
\* answers well.  Both providers are asked about the address in the URL, so
\* the body depends on the address.
BodyOf(ip) ==
    IF ip = IP_GOOGLE
    THEN [latitude |-> Num(37400), longitude |-> Num(-122100), city |-> "Mountain View",
          region |-> "California", country |-> "US", country_name |-> "United States",
          country_code |-> "US"]
    ELSE [latitude |-> Num(-33900), longitude |-> Num(151200), city |-> "Sydney",
          region |-> "", country |-> "AU", country_name |-> "Australia",
          country_code |-> "AU"]

\* A response of fetch(): net = FALSE is a rejected fetch (network failure);
\* ok is res.ok; json is what res.json() does: "object" (a JSON object, the
\* fields below), "null" (the JSON text null), "scalar" (a JSON number or
\* string) or "malformed" (res.json() rejects); success is the success flag
\* ("absent", "true", "false"); error is whether the error field is truthy.
Response(net, ok, json, success, error, body) ==
    [net |-> net, ok |-> ok, json |-> json, success |-> success, error |-> error,
     latitude |-> body.latitude, longitude |-> body.longitude, city |-> body.city,
     region |-> body.region, country |-> body.country,
     country_name |-> body.country_name, country_code |-> body.country_code]

\* What a provider function does: it throws, or it returns null or a record.
Threw == [threw |-> TRUE, value |-> NULL]
Returned(v) == [threw |-> FALSE, value |-> v]

\* the provider functions without the typeof test of the coordinates
ProviderBodyNoTypeof(resp, failed, record) ==
    IF ~resp.net THEN Threw
    ELSE IF ~resp.ok THEN Returned(NULL)
    ELSE IF resp.json = "malformed" THEN Threw
    ELSE IF resp.json = "null" THEN Threw
    ELSE IF resp.json = "object" /\ failed THEN Returned(NULL)
    ELSE IF resp.json # "object" THEN Returned(NULL)
    ELSE IF resp.latitude.t \in {"null", "absent"} \/ resp.longitude.t \in {"null", "absent"}
         THEN Returned(NULL)
    ELSE Returned(record)

\* the checks both provider functions share, up to the failure signal
ProviderBody(resp, failed, record) ==
    IF ~resp.net THEN Threw                       \* await fetch(...) rejects
    ELSE IF ~resp.ok THEN Returned(NULL)          \* if (!res.ok) return null
    ELSE IF resp.json = "malformed" THEN Threw    \* await res.json() rejects
    ELSE IF resp.json = "null" THEN Threw         \* data.success of null: TypeError
    ELSE IF resp.json = "object" /\ failed THEN Returned(NULL)
    ELSE IF resp.json # "object" THEN Returned(NULL)  \* no latitude on a scalar
    ELSE IF resp.latitude.t # "num" \/ resp.longitude.t # "num" THEN Returned(NULL)
    ELSE Returned(record)

\* the primary provider, ipwho.is
PrimaryProvider(resp) ==
    ProviderBody(resp, resp.success = "false",
        [lat |-> resp.latitude.n, lon |-> resp.longitude.n, city |-> OrNull(resp.city),
         region |-> OrNull(resp.region), country |-> OrNull(resp.country),
         countryCode |-> OrNull(resp.country_code)])

\* the fallback provider, ipapi.co
FallbackProvider(resp) ==
    ProviderBody(resp, resp.error,
        [lat |-> resp.latitude.n, lon |-> resp.longitude.n, city |-> OrNull(resp.city),
         region |-> OrNull(resp.region),
         country |-> OrNull(OrElse(resp.country_name, resp.country)),
         countryCode |-> OrNull(resp.country_code)])

\* the list `providers` with the fallback first
ProvidersSwapped == <<"fallback", "primary">>

\* the list `providers` of geolocate, in its order
Providers == <<"primary", "fallback">>

CallProvider(name, resp) ==
    IF name = "primary" THEN PrimaryProvider(resp) ELSE FallbackProvider(resp)

----------------------------------------------------------------------------
(* Hops and the two decoders *)

\* the first i for which P(i) holds among lo..hi, or 0
FirstPos(lo, hi, P(_)) ==
    IF \E i \in lo..hi : P(i) THEN CHOOSE i \in lo..hi : P(i) /\ \A j \in lo..(i - 1) : ~P(j)
    ELSE 0

\* \d{1,3}(?:\.\d{1,3}){3} matched at position i of s: the length of the match,
\* or 0.  A group that a dot must follow is the whole run of digits there (at
\* most three); the last group takes up to three digits.
QuadAt(s, i) ==
    LET r1 == DigitRun(s, i)
        p2 == i + r1 + 1
        r2 == DigitRun(s, p2)
        p3 == p2 + r2 + 1
        r3 == DigitRun(s, p3)
        p4 == p3 + r3 + 1
        r4 == DigitRun(s, p4)
        l4 == IF r4 > 3 THEN 3 ELSE r4
    IN  IF /\ r1 \in 1..3 /\ HasAt(s, i + r1, <<".">>)
           /\ r2 \in 1..3 /\ HasAt(s, p2 + r2, <<".">>)
           /\ r3 \in 1..3 /\ HasAt(s, p3 + r3, <<".">>)
           /\ r4 >= 1
        THEN p4 + l4 - i
        ELSE 0

\* /^\d{1,3}\.\d{1,3}\.\d{1,3}\.\d{1,3}$/.test(s)
IsDottedQuad(s) ==
    /\ s # NoStr
    /\ QuadAt(s, 1) = Len(s)

\* line.match(/(\d{1,3}(?:\.\d{1,3}){3})/): the first match, or NoStr
FirstQuad(line) ==
    LET i == FirstPos(1, Len(line), LAMBDA k : QuadAt(line, k) > 0)
    IN  IF i = 0 THEN NoStr ELSE SubSeq(line, i, i + QuadAt(line, i) - 1)

HopMarker == <<".", "|", "-", "-">>

\* /^\s*\d+\.\|--/.test(line)
IsHopLine(line) ==
    LET d == 1 + SpaceRun(line, 1)
    IN  /\ DigitRun(line, d) >= 1
        /\ HasAt(line, d + DigitRun(line, d), HopMarker)

\* line.match(/^\s*(\d+)/) and parseInt of it, for a line that has the digits
LeadingInt(line) ==
    LET d == 1 + SpaceRun(line, 1)
    IN  DecVal(line, d, DigitRun(line, d))

\* number of characters of s from position i on that are neither \s nor "("
RECURSIVE TokenRun(_, _)
TokenRun(s, i) ==
    IF i <= Len(s) /\ ~IsSpace(s[i]) /\ s[i] # "(" THEN 1 + TokenRun(s, i + 1) ELSE 0

\* /\d+\.\|--\s*([^\s(]+)/ matched from position i: where the token starts, or 0
HostAt(line, i) ==
    LET m == i + DigitRun(line, i)
        t == m + 4 + SpaceRun(line, m + 4)
    IN  IF DigitRun(line, i) >= 1 /\ HasAt(line, m, HopMarker) /\ TokenRun(line, t) >= 1
        THEN t
        ELSE 0

\* line.match(/\d+\.\|--\s*([^\s(]+)/): the token of the first match, or NoStr
HostToken(line) ==
    LET i == FirstPos(1, Len(line), LAMBDA k : HostAt(line, k) > 0)
        t == HostAt(line, i)
    IN  IF i = 0 THEN NoStr ELSE SubSeq(line, t, t + TokenRun(line, t) - 1)

\* /(\d+(?:\.\d+)?)\s*ms/ matched at position i: the length of the number, or 0
RttAt(line, i) ==
    LET k == DigitRun(line, i)
        f == DigitRun(line, i + k + 1)
        e == i + k + 1 + f
    IN  IF k = 0 THEN 0
        ELSE IF /\ HasAt(line, i + k, <<".">>) /\ f >= 1
                /\ HasAt(line, e + SpaceRun(line, e), <<"m", "s">>)
             THEN k + 1 + f
        ELSE IF HasAt(line, i + k + SpaceRun(line, i + k), <<"m", "s">>) THEN k
        ELSE 0

\* parseFloat of the numeral s[i .. i+n-1] (digits, optionally a dot and
\* digits), in thousandths; digits after the third decimal are dropped
ParseFloatAt(s, i, n) ==
    LET k == DigitRun(s, i)
        f == n - k - 1
        d(j) == IF j <= f THEN DigitVal(s[i + k + j]) ELSE 0
    IN  DecVal(s, i, k) * 1000 + d(1) * 100 + d(2) * 10 + d(3)

\* line.match(/(\d+(?:\.\d+)?)\s*ms/) and parseFloat of it, or null
RttOf(line) ==
    LET i == FirstPos(1, Len(line), LAMBDA k : RttAt(line, k) > 0)
    IN  IF i = 0 THEN NullVal ELSE Num(ParseFloatAt(line, i, RttAt(line, i)))

\* the hops parseMtrText pushes for the lines from position i on (a hop line
\* always has its leading integer, so `hops.length + 1` is never taken)
RECURSIVE TextHops(_, _)
TextHops(lines, i) ==
    IF i > Len(lines) THEN <<>>
    ELSE IF ~IsHopLine(lines[i]) THEN TextHops(lines, i + 1)
    ELSE <<[hop |-> LeadingInt(lines[i]),
            ip |-> FirstQuad(lines[i]),
            hostname |-> IF HostToken(lines[i]) # NoStr THEN HostToken(lines[i])
                         ELSE FirstQuad(lines[i]),
            rtt |-> RttOf(lines[i])]>> \o TextHops(lines, i + 1)

\* text is the output as text.split("\n") gives it: its lines
parseMtrText(text) == TextHops(text, 1)

\* Further JSON values of a latency field: a string that starts with a numeral
\* and goes on with other text ("12.5ms"), a string without numeral ("n/a"),
\* and a number beyond the double range (1e999, which JSON.parse makes Infinity)
StrJunk(n) == [t |-> "strjunk", n |-> n]
TextVal == [t |-> "text", n |-> 0]
InfVal == [t |-> "inf", n |-> 0]

\* parseFloat(v) of getFirstValidNumber is a finite number: v is a finite
\* number, or a string whose start is a numeral (parseFloat reads the longest
\* numeral at the start and ignores what follows); n is the number read
ValidNumber(v) == v.t \in {"num", "str", "strjunk"}

\* getFirstValidNumber(...values): values is the argument list
RECURSIVE getFirstValidNumber(_)
getFirstValidNumber(values) ==
    IF values = <<>> THEN NullVal
    ELSE IF ValidNumber(Head(values)) THEN Num(Head(values).n)
    ELSE getFirstValidNumber(Tail(values))

\* `a || b` on strings
OrStr(a, b) == IF a # NoStr THEN a ELSE b

\* A parsed JSON value, as far as parseMtrJson looks into it:
\*   kind    "null", "scalar", "array" or "object" (the top-level value)
\*   report  "absent", "scalar" or "object" (json.report)
\*   hubs    "absent", "scalar", "object" or "array" (json.report.hubs)
\*   list    the elements of hubs when it is an array; an element is
\*           [isNull, host, hostname, ip, avg, last, best, wst]
HubsArray(json) == json.kind = "object" /\ json.report = "object" /\ json.hubs = "array"

\* a map callback that prefers the ip field to a host string that is an address
HubHopIpFieldFirst(hub, idx) ==
    LET hostString == OrStr(hub.host, OrStr(hub.hostname, hub.ip))
        isIP == IsDottedQuad(hostString)
    IN  [hop |-> idx + 1,
         ip |-> IF hub.ip # NoStr THEN hub.ip ELSE IF isIP THEN hostString ELSE NoStr,
         hostname |-> hostString,
         rtt |-> getFirstValidNumber(<<hub.avg, hub.last, hub.best, hub.wst>>)]

\* the element of the map callback of parseMtrJson
HubHop(hub, idx) ==
    LET hostString == OrStr(hub.host, OrStr(hub.hostname, hub.ip))
        isIP == IsDottedQuad(hostString)
    IN  [hop |-> idx + 1,
         ip |-> IF isIP THEN hostString ELSE hub.ip,
         hostname |-> hostString,
         rtt |-> getFirstValidNumber(<<hub.avg, hub.last, hub.best, hub.wst>>)]

\* hub.host of a null element: TypeError
parseMtrJsonThrows(json) ==
    /\ HubsArray(json)
    /\ \E i \in 1..Len(json.list) : json.list[i].isNull

parseMtrJson(json) ==
    IF ~HubsArray(json) THEN <<>>
    ELSE [i \in 1..Len(json.list) |-> HubHop(json.list[i], i - 1)]

\* The captured stdout: its text, line by line, and what JSON.parse makes of
\* that text (parses = FALSE: JSON.parse throws a SyntaxError).
JSONParseThrows(stdout) == ~stdout.parses

\* the decoding without the fallback to the text decoder
DecodeNoFallback(stdout) ==
    IF JSONParseThrows(stdout) \/ parseMtrJsonThrows(stdout.json)
    THEN [hops |-> <<>>, tried |-> <<"json">>, threw |-> FALSE]
    ELSE [hops |-> parseMtrJson(stdout.json), tried |-> <<"json">>, threw |-> FALSE]

\* the decoding without the try/catch: the exception leaves runTraceroute
DecodeNoCatch(stdout) ==
    IF JSONParseThrows(stdout) \/ parseMtrJsonThrows(stdout.json)
    THEN [hops |-> <<>>, tried |-> <<"json">>, threw |-> TRUE]
    ELSE [hops |-> parseMtrJson(stdout.json), tried |-> <<"json">>, threw |-> FALSE]

\* runTraceroute after the process has completed: the hops returned, the
\* decoders invoked, in order, and whether an exception leaves the function
Decode(stdout) ==
    IF JSONParseThrows(stdout) \/ parseMtrJsonThrows(stdout.json)
    THEN [hops |-> parseMtrText(stdout.text), tried |-> <<"json", "text">>, threw |-> FALSE]
    ELSE [hops |-> parseMtrJson(stdout.json), tried |-> <<"json">>, threw |-> FALSE]

----------------------------------------------------------------------------
(* Outputs of the trace utility *)

\* an element of hubs: an object with these fields (NoStr, Absent: not there)
Hub(host, hostname, ip, avg, last, best, wst) ==
    [isNull |-> FALSE, host |-> host, hostname |-> hostname, ip |-> ip,
     avg |-> avg, last |-> last, best |-> best, wst |-> wst]

\* an element of hubs that is null
NullHub ==
    [isNull |-> TRUE, host |-> NoStr, hostname |-> NoStr, ip |-> NoStr,
     avg |-> Absent, last |-> Absent, best |-> Absent, wst |-> Absent]

\* the json field of an output JSON.parse rejects (never read)
NoJson == [kind |-> "null", report |-> "absent", hubs |-> "absent", list |-> <<>>]

\* a private hop, a hop that did not answer, a public hop
OutLanGapGoogle ==
    [text |-> <<<<"{", "\"", "r", "e", "p", "o", "r", "t", "\"", ":", "{", "\"", "h", "u",
                "b", "s", "\"", ":", "[", "{", "\"", "h", "o", "s", "t", "\"", ":", "\"",
                "1", "9", "2", ".", "1", "6", "8", ".", "1", ".", "1", "\"", ",", "\"",
                "a", "v", "g", "\"", ":", "0", ".", "4", "}", ",", "{", "\"", "h", "o",
                "s", "t", "\"", ":", "\"", "?", "?", "?", "\"", "}", ",", "{", "\"", "h",
                "o", "s", "t", "\"", ":", "\"", "8", ".", "8", ".", "8", ".", "8", "\"",
                ",", "\"", "a", "v", "g", "\"", ":", "1", "2", ".", "5", "}", "]", "}",
                "}">>>>,
     parses |-> TRUE,
     json |-> [kind |-> "object", report |-> "object", hubs |-> "array",
              list |-> <<Hub(<<"1", "9", "2", ".", "1", "6", "8", ".", "1", ".", "1">>, <<>>, <<>>, Num(400), Absent, Absent, Absent),
                         Hub(<<"?", "?", "?">>, <<>>, <<>>, Absent, Absent, Absent, Absent),
                         Hub(<<"8", ".", "8", ".", "8", ".", "8">>, <<>>, <<>>, Num(12500), Absent, Absent, Absent)>>]]

\* two public hops, the second named by a host name and an ip field
OutTwoPublic ==
    [text |-> <<<<"{", "\"", "r", "e", "p", "o", "r", "t", "\"", ":", "{", "\"", "h", "u",
                "b", "s", "\"", ":", "[", "{", "\"", "h", "o", "s", "t", "\"", ":", "\"",
                "8", ".", "8", ".", "8", ".", "8", "\"", ",", "\"", "a", "v", "g", "\"",
                ":", "1", "2", ".", "5", "}", ",", "{", "\"", "h", "o", "s", "t", "\"",
                ":", "\"", "o", "n", "e", ".", "o", "n", "e", "\"", ",", "\"", "i", "p",
                "\"", ":", "\"", "1", ".", "1", ".", "1", ".", "1", "\"", ",", "\"", "l",
                "a", "s", "t", "\"", ":", "2", "0", "}", "]", "}", "}">>>>,
     parses |-> TRUE,
     json |-> [kind |-> "object", report |-> "object", hubs |-> "array",
              list |-> <<Hub(<<"8", ".", "8", ".", "8", ".", "8">>, <<>>, <<>>, Num(12500), Absent, Absent, Absent),
                         Hub(<<"o", "n", "e", ".", "o", "n", "e">>, <<>>, <<"1", ".", "1", ".", "1", ".", "1">>, Absent, Num(20000), Absent, Absent)>>]]

\* the same public address at two hops
OutSamePublicTwice ==
    [text |-> <<<<"{", "\"", "r", "e", "p", "o", "r", "t", "\"", ":", "{", "\"", "h", "u",
                "b", "s", "\"", ":", "[", "{", "\"", "h", "o", "s", "t", "\"", ":", "\"",
                "8", ".", "8", ".", "8", ".", "8", "\"", "}", ",", "{", "\"", "h", "o",
                "s", "t", "\"", ":", "\"", "8", ".", "8", ".", "8", ".", "8", "\"", "}",
                "]", "}", "}">>>>,
     parses |-> TRUE,
     json |-> [kind |-> "object", report |-> "object", hubs |-> "array",
              list |-> <<Hub(<<"8", ".", "8", ".", "8", ".", "8">>, <<>>, <<>>, Absent, Absent, Absent, Absent),
                         Hub(<<"8", ".", "8", ".", "8", ".", "8">>, <<>>, <<>>, Absent, Absent, Absent, Absent)>>]]

\* the report as text: a header line and two hop lines
OutTextReport ==
    [text |-> <<<<"H", "O", "S", "T", ":", " ", "b", "o", "x", " ", "L", "o", "s", "s",
                "%">>,
              <<" ", " ", "1", ".", "|", "-", "-", " ", "1", "0", ".", "0", ".", "0",
                ".", "1", " ", "0", ".", "0", "%", " ", "0", ".", "4", " ", "m", "s">>,
              <<" ", " ", "2", ".", "|", "-", "-", " ", "d", "n", "s", ".", "g", "o",
                "o", "g", "l", "e", " ", "(", "8", ".", "8", ".", "8", ".", "8", ")", " ",
                "1", "2", ".", "5", "m", "s">>>>,
     parses |-> FALSE,
     json |-> NoJson]

\* JSON without a report
OutEmptyObject ==
    [text |-> <<<<"{", "}">>>>,
     parses |-> TRUE,
     json |-> [kind |-> "object", report |-> "absent", hubs |-> "absent",
              list |-> <<>>]]

\* text without a hop line
OutNoise ==
    [text |-> <<<<"m", "t", "r", ":", " ", "n", "o", " ", "r", "o", "u", "t", "e">>>>,
     parses |-> FALSE,
     json |-> NoJson]

\* no output at all
OutEmpty ==
    [text |-> <<<<>>>>,
     parses |-> FALSE,
     json |-> NoJson]

\* a hop list with a null element: hub.host throws
OutNullHub ==
    [text |-> <<<<"{", "\"", "r", "e", "p", "o", "r", "t", "\"", ":", "{", "\"", "h", "u",
                "b", "s", "\"", ":", "[", "{", "\"", "h", "o", "s", "t", "\"", ":", "\"",
                "8", ".", "8", ".", "8", ".", "8", "\"", "}", ",", "n", "u", "l", "l", "]",
                "}", "}">>>>,
     parses |-> TRUE,
     json |-> [kind |-> "object", report |-> "object", hubs |-> "array",
              list |-> <<Hub(<<"8", ".", "8", ".", "8", ".", "8">>, <<>>, <<>>, Absent, Absent, Absent, Absent),
                         NullHub>>]]

\* the JSON text null
OutJsonNull ==
    [text |-> <<<<"n", "u", "l", "l">>>>,
     parses |-> TRUE,
     json |-> [kind |-> "null", report |-> "absent", hubs |-> "absent",
              list |-> <<>>]]

\* a JSON array printed one number a line
OutJsonNumbers ==
    [text |-> <<<<"[">>,
              <<" ", " ", "1", ".", "5", ",">>,
              <<" ", " ", "2">>,
              <<"]">>>>,
     parses |-> TRUE,
     json |-> [kind |-> "array", report |-> "absent", hubs |-> "absent",
              list |-> <<>>]]

\* JSON whose string holds a hop line
OutMarkerInString ==
    [text |-> <<<<"{", "\"", "r", "e", "p", "o", "r", "t", "\"", ":", "{", "\"", "n", "o",
                "t", "e", "\"", ":", "\"", "\\", "t", "1", ".", "|", "-", "-", " ", "8",
                ".", "8", ".", "8", ".", "8", " ", "3", " ", "m", "s", "\"", "}", "}">>>>,
     parses |-> TRUE,
     json |-> [kind |-> "object", report |-> "object", hubs |-> "absent",
              list |-> <<>>]]

\* JSON whose hubs is an object, printed on several lines
OutHubsNotArray ==
    [text |-> <<<<"{", "\"", "r", "e", "p", "o", "r", "t", "\"", ":">>,
              <<"{", "\"", "h", "u", "b", "s", "\"", ":">>,
              <<"{", "\"", "1", "\"", ":", "\"", "8", ".", "8", ".", "8", ".", "8", "\"",
                "}", "}", "}">>>>,
     parses |-> TRUE,
     json |-> [kind |-> "object", report |-> "object", hubs |-> "object",
              list |-> <<>>]]

\* JSON whose report is a number
OutReportScalar ==
    [text |-> <<<<"{", "\"", "r", "e", "p", "o", "r", "t", "\"", ":", "1", "}">>>>,
     parses |-> TRUE,
     json |-> [kind |-> "object", report |-> "scalar", hubs |-> "absent",
              list |-> <<>>]]

\* JSON with an empty hop list
OutEmptyHubs ==
    [text |-> <<<<"{", "\"", "r", "e", "p", "o", "r", "t", "\"", ":", "{", "\"", "h", "u",
                "b", "s", "\"", ":", "[", "]", "}", "}">>>>,
     parses |-> TRUE,
     json |-> [kind |-> "object", report |-> "object", hubs |-> "array",
              list |-> <<>>]]

\* JSON cut short
OutTruncatedJson ==
    [text |-> <<<<"{", "\"", "r", "e", "p", "o", "r", "t", "\"", ":", "{", "\"", "h", "u",
                "b", "s", "\"", ":", "[">>>>,
     parses |-> FALSE,
     json |-> NoJson]

\* text with a hop that did not answer and hop numbers 1, 3
OutTextGap ==
    [text |-> <<<<" ", "1", ".", "|", "-", "-", " ", "1", "9", "2", ".", "1", "6", "8",
                ".", "1", ".", "1">>,
              <<" ", "3", ".", "|", "-", "-", " ", "?", "?", "?">>>>,
     parses |-> FALSE,
     json |-> NoJson]

\* a hop line with nothing after the marker, and a later marker
OutTextNoToken ==
    [text |-> <<<<"1", ".", "|", "-", "-">>,
              <<"2", ".", "|", "-", "-", " ", "(", "1", ".", "1", ".", "1", ".", "1",
                ")", " ", "7", ".", "|", "-", "-", " ", "x", " ", "5", " ", "m", "s">>>>,
     parses |-> FALSE,
     json |-> NoJson]


\* the outputs a trace of the server model may capture
Outputs ==
    {OutLanGapGoogle, OutSamePublicTwice, OutEmptyObject,
     OutNoise, OutEmpty, OutNullHub, OutJsonNull, OutTruncatedJson, OutHubsNotArray}

\* the outputs the decoders are applied to
DecodeInputs ==
    Outputs \cup {OutTextReport, OutTwoPublic, OutJsonNumbers, OutMarkerInString,
                  OutReportScalar, OutEmptyHubs, OutTextGap, OutTextNoToken}

----------------------------------------------------------------------------
(* The server: requests, geolocate, enrichWithGeo, the handlers *)

\* the request slots: requests the server may have in flight together
Procs == {"r1", "r2"}

\* { ...a, ...b }
Spread(a, b) == [k \in DOMAIN a \cup DOMAIN b |-> IF k \in DOMAIN b THEN b[k] ELSE a[k]]

\* {}
EmptyObject == [k \in {} |-> 0]

NoRes == [status |-> 0]

\* A request slot.  kind, pc, target, hops, enriched, ip, prov, geo and res are
\* the request's locals and its position; the rest is history:
\*   raw       the target parameter of a request that validation rejected
\*   exec      how the trace utility ended ("none" before it is invoked)
\*   spawns    the processes execAsync has spawned for the request
\*   util      the trace utility process: "none", "running" or "gone"
\*   tried     the decoders runTraceroute invoked on its output, in order
\*   seen      what the cache held for ip when geolocate was entered
\*   queried   the providers the current geolocate call has queried, in order
\*   outcomes  what each of them did: "accepted" or "failed" (it declined or threw)
\*   calls     the addresses enrichWithGeo called geolocate for
\*   rets      what those calls returned
\*   cacheOps  GeoCache operations made for the request
IdleReq ==
    [kind |-> "none", pc |-> "idle", target |-> NoStr, hops |-> <<>>, enriched |-> <<>>,
     ip |-> NoStr, prov |-> 0, geo |-> NULL, res |-> NoRes,
     raw |-> NoStr, exec |-> "none", spawns |-> 0, util |-> "none", tried |-> <<>>, seen |-> "none", queried |-> <<>>, outcomes |-> <<>>,
     calls |-> <<>>, rets |-> <<>>, cacheOps |-> 0]

\* String.prototype.trim
RECURSIVE TrimEnd(_)
TrimEnd(s) ==
    IF s # <<>> /\ IsSpace(s[Len(s)]) THEN TrimEnd(SubSeq(s, 1, Len(s) - 1)) ELSE s

Trim(s) == TrimEnd(SubSeq(s, 1 + SpaceRun(s, 1), Len(s)))

\* the test of the expression without its anchors: /[a-zA-Z0-9_.:-]+/
TargetRegexTestUnanchored(target) ==
    \E i \in 1..Len(target) :
        IsLetter(target[i]) \/ IsDigit(target[i]) \/ target[i] \in {"_", ".", ":", "-"}

\* CONFIG.TARGET_REGEX.test(target): /^[a-zA-Z0-9_.:-]+$/
TargetRegexTest(target) ==
    /\ target # <<>>
    /\ \A i \in 1..Len(target) :
          IsLetter(target[i]) \/ IsDigit(target[i]) \/ target[i] \in {"_", ".", ":", "-"}

\* the values of the target query parameter the model sends (NoStr: none)
Targets ==
    {IP_GOOGLE,
     <<" ">> \o IP_GOOGLE \o <<"\t">>,
     NoStr,
     <<" ">>,
     <<"a", ";", "l", "s">>,
     <<"8", ".", "8", " ", "x">>,
     <<"$", "(", "i", "d", ")">>,
     <<"a", "|", "b">>,
     <<"a", "\n", "b">>,
     <<"h", "/", ".", ".">>}

\* res.status(400).json(...)
BadTarget == [status |-> 400, error |-> "Invalid or missing target parameter"]

\* the catch of /trace with a response that reports success without hops
TraceFailureAsSuccess(target) ==
    [status |-> 200, success |-> TRUE, target |-> target, hops |-> <<>>,
     stats |-> [totalHops |-> 0, publicHops |-> 0, geolocatedHops |-> 0]]

\* the catch of /trace: res.status(500).json(...)
TraceFailure(target) ==
    [status |-> 500, success |-> FALSE, error |-> "Traceroute failed", target |-> target]

\* the number of elements of a sequence that satisfy P
CountIf(seq, P(_)) == Cardinality({i \in 1..Len(seq) : P(seq[i])})

\* h.lat && h.lon: a number is truthy unless it is 0
HasGeo(h) == "lat" \in DOMAIN h /\ "lon" \in DOMAIN h /\ h.lat # 0 /\ h.lon # 0

\* h.ip && !isPrivateIP(h.ip)
IsPublicHop(h) == h.ip # NoStr /\ ~isPrivateIP(h.ip)

\* h.ip alone
HasIp(h) == h.ip # NoStr

\* the response of /trace with publicHops counting every hop with an address
TraceSuccessCountsAddressed(target, hops, enriched) ==
    [status |-> 200, success |-> TRUE, target |-> target,
     stats |-> [totalHops |-> Len(hops),
                publicHops |-> CountIf(enriched, HasIp),
                geolocatedHops |-> CountIf(enriched, HasGeo)],
     hops |-> enriched]

\* res.json({success: true, ...}) of /trace (durationMs and metadata left out)
TraceSuccess(target, hops, enriched) ==
    [status |-> 200, success |-> TRUE, target |-> target,
     stats |-> [totalHops |-> Len(hops),
                publicHops |-> CountIf(enriched, IsPublicHop),
                geolocatedHops |-> CountIf(enriched, HasGeo)],
     hops |-> enriched]

\* the catch of /whoami
WhoamiFailure == [status |-> 500, success |-> FALSE, error |-> "Failed to detect public IP"]

\* res.json({success: true, ip, geo, ...}) of /whoami
WhoamiSuccess(ip, geo) == [status |-> 200, success |-> TRUE, ip |-> ip, geo |-> geo]

\* enrichWithGeo without the test of the address class
SkipsGeoNoClass(hop) == hop.ip = NoStr

\* enrichWithGeo without the skip: every hop is looked up
SkipsGeoNever(hop) == FALSE

\* enrichWithGeo: if (!hop.ip || isPrivateIP(hop.ip))
SkipsGeo(hop) == hop.ip = NoStr \/ isPrivateIP(hop.ip)

\* enrichWithGeo from the hop after the enriched ones up to its next call of
\* geolocate: the private and address-less hops pushed on the way
RECURSIVE PushPrivate(_, _)
PushPrivate(hops, enriched) ==
    LET i == Len(enriched) + 1
    IN  IF i > Len(hops) \/ ~SkipsGeo(hops[i]) THEN enriched
        ELSE PushPrivate(hops, Append(enriched, Spread(hops[i], [isPrivate |-> TRUE])))

\* a push of an object built from the hop's number and address, without the
\* spread of the hop
PushGeoNoSpread(enriched, hop, geo) ==
    Append(enriched,
           Spread([hop |-> hop.hop, ip |-> hop.ip, isPrivate |-> FALSE],
                  IF Truthy(geo) THEN geo ELSE EmptyObject))

\* enriched.push({...hop, isPrivate: false, ...(geo || {})})
PushGeo(enriched, hop, geo) ==
    Append(enriched,
           Spread(Spread(hop, [isPrivate |-> FALSE]), IF Truthy(geo) THEN geo ELSE EmptyObject))

\* what the Map holds for a key at time t, before any get
EntryState(c, key, t) ==
    IF key \notin DOMAIN c THEN "absent"
    ELSE IF t - c[key].timestamp > CACHE_TTL_MS THEN "expired"
    ELSE IF c[key].value = NULL THEN "negative"
    ELSE "positive"

\* geolocate that reads the cache and goes on to the providers whatever it found
GeoEnterIgnoresHit(r, ip, c, t) ==
    LET cached == GeoCacheGet(c, ip, t)
        r1 == [r EXCEPT !.ip = ip, !.seen = EntryState(c, ip, t),
                        !.cacheOps = @ + 1, !.outcomes = <<>>]
    IN  [r |-> [r1 EXCEPT !.pc = "fetch", !.prov = 1, !.queried = <<Providers[1]>>],
         cache |-> cached.cache]

\* geolocate, entered by request record r for address ip, up to its first
\* await: the cache lookup, then a return or the fetch of the primary
GeoEnter(r, ip, c, t) ==
    LET cached == GeoCacheGet(c, ip, t)
        r1 == [r EXCEPT !.ip = ip, !.seen = EntryState(c, ip, t),
                        !.cacheOps = @ + 1, !.outcomes = <<>>]
    IN  IF Truthy(cached.ret)
        THEN [r |-> [r1 EXCEPT !.pc = "geo_ret", !.geo = cached.ret, !.queried = <<>>,
                               !.prov = 0],
              cache |-> cached.cache]
        ELSE [r |-> [r1 EXCEPT !.pc = "fetch", !.prov = 1, !.queried = <<Providers[1]>>],
              cache |-> cached.cache]

\* the responses a provider may give about an address
Responses(ip) ==
    {Response(TRUE, TRUE, "object", "true", FALSE, BodyOf(ip)),
     Response(TRUE, TRUE, "object", "false", TRUE, BodyOf(ip)),
     Response(TRUE, FALSE, "object", "true", FALSE, BodyOf(ip)),
     Response(TRUE, TRUE, "malformed", "absent", FALSE, BodyOf(ip)),
     Response(FALSE, FALSE, "malformed", "absent", FALSE, BodyOf(ip))}

\* geolocate without the try/catch around the provider call
CatchesNothing(out) == FALSE

\* try { ... } catch (err) { console.warn(...) } of geolocate
Catches(out) == TRUE

\* geolocate that does not store an accepted record
StoreAcceptedSkipped(c, ip, geo, t) == c

\* geolocate with the address kept in a variable shared by all calls: a call
\* that resumes stores under the address of a call that entered after it
StoreAcceptedSharedIp(c, ip, geo, t) ==
    LET others == {req[q].ip : q \in {q \in Procs : req[q].pc = "fetch" /\ req[q].ip # ip}}
    IN  GeoCacheSet(c, IF others = {} THEN ip ELSE CHOOSE k \in others : TRUE, geo, t)

\* geoCache.set(ip, geo) of geolocate
StoreAccepted(c, ip, geo, t) == GeoCacheSet(c, ip, geo, t)

\* geolocate that does not store the negative result
StoreExhaustedSkipped(c, ip, t) == c

\* geoCache.set(ip, null) of geolocate
StoreExhausted(c, ip, t) == GeoCacheSet(c, ip, NULL, t)

\* the catch of the handler a request belongs to
HandlerCatch(r) ==
    [r EXCEPT !.pc = "done",
              !.res = IF r.kind = "trace" THEN TraceFailure(r.target) ELSE WhoamiFailure]

\* geolocate resumed by the response resp to the fetch of provider r.prov:
\* the rest of the provider function, then the loop over the providers
GeoSettle(r, resp, c, t) ==
    LET out == CallProvider(Providers[r.prov], resp)
    IN  IF out.threw /\ ~Catches(out)
        THEN [r |-> HandlerCatch([r EXCEPT !.outcomes = Append(@, "failed")]), cache |-> c]
        ELSE IF ~out.threw /\ Truthy(out.value)
        THEN [r |-> [r EXCEPT !.pc = "geo_ret", !.geo = out.value,
                              !.outcomes = Append(@, "accepted"), !.cacheOps = @ + 1],
              cache |-> StoreAccepted(c, r.ip, out.value, t)]
        ELSE LET r1 == [r EXCEPT !.outcomes = Append(@, "failed")]
             IN  IF r.prov < Len(Providers)
                 THEN [r |-> [r1 EXCEPT !.prov = @ + 1,
                                        !.queried = Append(@, Providers[r.prov + 1])],
                       cache |-> c]
                 ELSE [r |-> [r1 EXCEPT !.pc = "geo_ret", !.geo = NULL, !.cacheOps = @ + 1],
                       cache |-> StoreExhausted(c, r.ip, t)]

\* What the timeout of exec leaves of the trace utility.  exec runs the command
\* line through a shell and, at the timeout, sends the kill signal to that
\* shell, its direct child.  The utility ends with it when the shell has
\* replaced itself by the utility; when the shell has started the utility as a
\* child of its own, the signal does not reach it and it runs on.
TimeoutLeaves == {"gone", "running"}

\* how the trace utility may end: it cannot be started, exits abnormally, is
\* killed at the timeout, or completes with some output; left is the state of
\* the utility process when execAsync settles
ExecOutcomes ==
    {[ok |-> FALSE, why |-> "spawn", stdout |-> OutEmpty, left |-> "none"],
     [ok |-> FALSE, why |-> "exit", stdout |-> OutEmpty, left |-> "gone"]}
        \cup {[ok |-> FALSE, why |-> "timeout", stdout |-> OutEmpty, left |-> l] :
                  l \in TimeoutLeaves}
        \cup {[ok |-> TRUE, why |-> "completed", stdout |-> o, left |-> "gone"] :
                  o \in Outputs}

\* what the fetch of lookupPublicIP may bring: ip = NoStr is a body without ip
LookupReplies ==
    {[net |-> FALSE, ok |-> FALSE, json |-> "malformed", ip |-> NoStr],
     [net |-> TRUE, ok |-> FALSE, json |-> "object", ip |-> IP_CLOUDFLARE],
     [net |-> TRUE, ok |-> TRUE, json |-> "malformed", ip |-> NoStr],
     [net |-> TRUE, ok |-> TRUE, json |-> "object", ip |-> NoStr],
     [net |-> TRUE, ok |-> TRUE, json |-> "object", ip |-> IP_CLOUDFLARE]}

\* Decode for each output of the model, computed once
Decoded == [o \in DecodeInputs |-> Decode(o)]

\* no front end is loaded: the server and the harnesses run without a page
NoPage == [variant |-> "none"]

BaseInit ==
    /\ ui = NoPage
    /\ now = 0
    /\ cache = EmptyObject
    /\ req = [p \in Procs |-> IdleReq]
    /\ started = 0
    /\ cop = [op |-> "none", key |-> NoStr, ret |-> NULL, size |-> 0]
    /\ written = EmptyObject
    /\ fn = [op |-> "none", stage |-> "none", in |-> 0, out |-> 0]

Init == BaseInit

\* A request that has been resumed and has not yet reached its next await (or
\* its end) runs on before the event loop takes the next event: promise
\* continuations run before any I/O callback.
Running(p) == req[p].pc \in {"enrich", "geo_ret", "done"}

\* the event loop is free to take the next event: a new request, a settled
\* fetch or process, the passing of time
LoopFree == \A p \in Procs : ~Running(p)

\* The slot a new request takes: the first free one (the slots are
\* interchangeable).
FreeSlot(p) == req[p].pc = "idle" /\ (p = "r2" => req["r1"].pc # "idle")

\* GET /trace?target=raw arrives: validation, then runTraceroute up to execAsync
TraceRequest(p, raw) ==
    /\ LoopFree
    /\ FreeSlot(p)
    /\ started < MaxRequests
    /\ started' = started + 1
    /\ LET target == Trim(raw)
       IN  IF target = NoStr \/ ~TargetRegexTest(target)
           THEN req' = [req EXCEPT ![p] =
                           [IdleReq EXCEPT !.kind = "trace", !.pc = "done", !.raw = raw,
                                           !.res = BadTarget]]
           ELSE req' = [req EXCEPT ![p] =
                           [IdleReq EXCEPT !.kind = "trace", !.pc = "exec", !.target = target,
                                           !.exec = "running", !.spawns = 1,
                                           !.util = "running"]]
    /\ UNCHANGED <<now, cache, cop, written, fn, ui>>

\* execAsync settles: runTraceroute throws into the catch of /trace, or
\* decodes the output and returns the hops
ExecSettle(p, o) ==
    /\ LoopFree
    /\ req[p].pc = "exec"
    /\ req' = [req EXCEPT ![p] =
                  IF o.ok /\ ~Decoded[o.stdout].threw
                  THEN [@ EXCEPT !.pc = "enrich", !.exec = o.why, !.util = o.left,
                                 !.hops = Decoded[o.stdout].hops,
                                 !.tried = Decoded[o.stdout].tried]
                  ELSE HandlerCatch([@ EXCEPT !.exec = o.why, !.util = o.left])]
    /\ UNCHANGED <<now, cache, started, cop, written, fn, ui>>

\* the addresses of the hops after the enriched ones that geolocate is to be
\* called for
RemainingCalls(hops, enriched) ==
    LET rest == SubSeq(hops, Len(enriched) + 1, Len(hops))
    IN  [k \in 1..CountIf(rest, IsPublicHop) |->
            rest[CHOOSE i \in 1..Len(rest) :
                    /\ IsPublicHop(rest[i])
                    /\ CountIf(SubSeq(rest, 1, i), IsPublicHop) = k].ip]

\* enrichWithGeo that starts the lookups of all the hops left at once, without
\* awaiting each
EnrichResumeAllAtOnce(p) ==
    /\ req[p].kind = "trace"
    /\ req[p].pc \in {"enrich", "geo_ret"}
    /\ LET r == req[p]
           pushed == IF r.pc = "geo_ret"
                     THEN PushGeo(r.enriched, r.hops[Len(r.enriched) + 1], r.geo)
                     ELSE r.enriched
           rets == IF r.pc = "geo_ret" THEN Append(r.rets, r.geo) ELSE r.rets
           enriched == PushPrivate(r.hops, pushed)
           r1 == [r EXCEPT !.enriched = enriched, !.rets = rets, !.geo = NULL, !.ip = NoStr,
                           !.prov = 0, !.seen = "none", !.queried = <<>>, !.outcomes = <<>>]
       IN  IF Len(enriched) = Len(r.hops)
           THEN /\ req' = [req EXCEPT ![p] =
                              [r1 EXCEPT !.pc = "done",
                                         !.res = TraceSuccess(r.target, r.hops, enriched)]]
                /\ cache' = cache
           ELSE LET ip == r.hops[Len(enriched) + 1].ip
                    g == GeoEnter([r1 EXCEPT !.calls = @ \o RemainingCalls(r.hops, enriched)],
                                  ip, cache, now)
                IN  /\ req' = [req EXCEPT ![p] = g.r]
                    /\ cache' = g.cache
    /\ UNCHANGED <<now, started, cop, written, fn, ui>>

\* /trace resumes with the hops, or enrichWithGeo resumes with the result of
\* geolocate: the loop runs on to the next geolocate call, or to the end and
\* the response
EnrichResume(p) ==
    /\ req[p].kind = "trace"
    /\ req[p].pc \in {"enrich", "geo_ret"}
    /\ LET r == req[p]
           pushed == IF r.pc = "geo_ret"
                     THEN PushGeo(r.enriched, r.hops[Len(r.enriched) + 1], r.geo)
                     ELSE r.enriched
           rets == IF r.pc = "geo_ret" THEN Append(r.rets, r.geo) ELSE r.rets
           enriched == PushPrivate(r.hops, pushed)
           r1 == [r EXCEPT !.enriched = enriched, !.rets = rets, !.geo = NULL, !.ip = NoStr,
                           !.prov = 0, !.seen = "none", !.queried = <<>>, !.outcomes = <<>>]
       IN  IF Len(enriched) = Len(r.hops)
           THEN /\ req' = [req EXCEPT ![p] =
                              [r1 EXCEPT !.pc = "done",
                                         !.res = TraceSuccess(r.target, r.hops, enriched)]]
                /\ cache' = cache
           ELSE LET ip == r.hops[Len(enriched) + 1].ip
                    g == GeoEnter([r1 EXCEPT !.calls = Append(@, ip)], ip, cache, now)
                IN  /\ req' = [req EXCEPT ![p] = g.r]
                    /\ cache' = g.cache
    /\ UNCHANGED <<now, started, cop, written, fn, ui>>

\* no call of geolocate for ip other than the one of p is past its cache
\* lookup and waiting for a provider
Alone(p, ip) == \A q \in Procs \ {p} : ~(req[q].pc = "fetch" /\ req[q].ip = ip)

\* the fetch of a provider settles.  written records, for each address, the
\* last record a provider got accepted: who supplied it, when, and whether
\* another call for the address was in flight then.
ProviderSettle(p, resp) ==
    /\ LoopFree
    /\ req[p].pc = "fetch"
    /\ LET g == GeoSettle(req[p], resp, cache, now)
       IN  /\ req' = [req EXCEPT ![p] = g.r]
           /\ cache' = g.cache
           /\ written' =
                 IF g.r.outcomes # <<>> /\ g.r.outcomes[Len(g.r.outcomes)] = "accepted"
                 THEN MapSet(written, req[p].ip,
                             [value |-> g.r.geo, at |-> now, by |-> Providers[req[p].prov],
                              alone |-> Alone(p, req[p].ip)])
                 ELSE written
    /\ UNCHANGED <<now, started, cop, fn, ui>>

\* GET /whoami arrives: lookupPublicIP up to its fetch
WhoamiRequest(p) ==
    /\ LoopFree
    /\ FreeSlot(p)
    /\ started < MaxRequests
    /\ started' = started + 1
    /\ req' = [req EXCEPT ![p] = [IdleReq EXCEPT !.kind = "whoami", !.pc = "lookup"]]
    /\ UNCHANGED <<now, cache, cop, written, fn, ui>>

\* the fetch of lookupPublicIP settles: a throw into the catch of /whoami, or
\* geolocate(ip)
LookupSettle(p, reply) ==
    /\ LoopFree
    /\ req[p].pc = "lookup"
    /\ IF ~reply.net \/ ~reply.ok \/ reply.json = "malformed" \/ reply.ip = NoStr
       THEN /\ req' = [req EXCEPT ![p] = HandlerCatch(@)]
            /\ cache' = cache
       ELSE LET g == GeoEnter([req[p] EXCEPT !.calls = Append(@, reply.ip)],
                              reply.ip, cache, now)
            IN  /\ req' = [req EXCEPT ![p] = g.r]
                /\ cache' = g.cache
    /\ UNCHANGED <<now, started, cop, written, fn, ui>>

\* /whoami resumes with the result of geolocate and responds
WhoamiRespond(p) ==
    /\ req[p].kind = "whoami"
    /\ req[p].pc = "geo_ret"
    /\ req' = [req EXCEPT ![p] =
                  [@ EXCEPT !.pc = "done", !.rets = Append(@, req[p].geo),
                            !.res = WhoamiSuccess(req[p].ip, req[p].geo)]]
    /\ UNCHANGED <<now, cache, started, cop, written, fn, ui>>

\* the response is sent and the request is over
Finish(p) ==
    /\ req[p].pc = "done"
    /\ req' = [req EXCEPT ![p] = IdleReq]
    /\ UNCHANGED <<now, cache, started, cop, written, fn, ui>>

\* time passes
Tick ==
    /\ LoopFree
    /\ now < MaxTicks * TickMs
    /\ now' = now + TickMs
    /\ UNCHANGED <<cache, req, started, cop, written, fn, ui>>

Next ==
    \/ \E p \in Procs, raw \in Targets : TraceRequest(p, raw)
    \/ \E p \in Procs, o \in ExecOutcomes : ExecSettle(p, o)
    \/ \E p \in Procs : EnrichResume(p)
    \/ \E p \in Procs : \E resp \in Responses(req[p].ip) : ProviderSettle(p, resp)
    \/ \E p \in Procs : WhoamiRequest(p)
    \/ \E p \in Procs, reply \in LookupReplies : LookupSettle(p, reply)
    \/ \E p \in Procs : WhoamiRespond(p)
    \/ \E p \in Procs : Finish(p)
    \/ Tick

Spec == Init /\ [][Next]_vars

----------------------------------------------------------------------------
(* The GeoCache harness: get, set and size on any key, with any value *)

\* the keys and values the harness uses
CacheKeys == PublicIPs

CacheValues ==
    {NULL,
     PrimaryProvider(Response(TRUE, TRUE, "object", "true", FALSE, BodyOf(IP_GOOGLE))).value,
     FallbackProvider(Response(TRUE, TRUE, "object", "absent", FALSE, BodyOf(IP_CLOUDFLARE))).value}

\* geoCache.set(k, v).  written records, for each key, the last set: its value,
\* its time, and what the Map held for the key before it (over, prev)
CacheSet(k, v) ==
    /\ cache' = GeoCacheSet(cache, k, v, now)
    /\ written' = MapSet(written, k,
                         [value |-> v, at |-> now, over |-> EntryState(cache, k, now),
                          prev |-> IF k \in DOMAIN cache THEN cache[k].value ELSE NULL])
    /\ cop' = [op |-> "set", key |-> k, ret |-> v, size |-> 0]
    /\ UNCHANGED <<now, req, started, fn, ui>>

CacheGet(k) ==
    /\ cache' = GeoCacheGet(cache, k, now).cache
    /\ cop' = [op |-> "get", key |-> k, ret |-> GeoCacheGet(cache, k, now).ret, size |-> 0]
    /\ UNCHANGED <<now, req, started, written, fn, ui>>

CacheSize ==
    /\ cop' = [op |-> "size", key |-> NoStr, ret |-> NULL, size |-> GeoCacheSize(cache)]
    /\ UNCHANGED <<now, cache, req, started, written, fn, ui>>

\* time passes; the record of the last operation is of the instant it was made
CacheTick ==
    /\ now < (MaxTicks + 1) * TickMs
    /\ now' = now + TickMs
    /\ cop' = [op |-> "none", key |-> NoStr, ret |-> NULL, size |-> 0]
    /\ UNCHANGED <<cache, req, started, written, fn, ui>>

CacheNext ==
    \/ \E k \in CacheKeys, v \in CacheValues : CacheSet(k, v)
    \/ \E k \in CacheKeys : CacheGet(k)
    \/ CacheSize
    \/ CacheTick

CacheSpec == BaseInit /\ [][CacheNext]_vars

----------------------------------------------------------------------------
(* The harness of the functions: an input is drawn, the function is applied *)

\* every shape of response the provider functions may be given
AllResponses ==
    {Response(net, ok, json, success, error,
              [BodyOf(ip) EXCEPT !.latitude = lat, !.longitude = lon])
        : net \in BOOLEAN, ok \in BOOLEAN,
          json \in {"object", "null", "scalar", "malformed"},
          success \in {"absent", "true", "false"}, error \in BOOLEAN,
          lat \in {Num(37400), Num(0), StrNum(37400), NullVal, Absent},
          lon \in {Num(-122100), Num(0), StrNum(-122100), Absent},
          ip \in {IP_GOOGLE}}

\* the dotted quads isPrivateIP is applied to: every first octet, the second
\* octets at and around the edges of the ranges, some third and fourth octets
SecondOctets ==
    {0, 1, 9, 10, 15, 16, 17, 19, 20, 25, 29, 30, 31, 32, 99, 100, 127, 160, 167, 168,
     169, 172, 192, 253, 254, 255}

Quads ==
    {<<a, b, t[1], t[2]>> : a \in 0..255, b \in SecondOctets,
                            t \in {<<0, 1>>, <<168, 254>>, <<255, 255>>}}

\* the addresses given to isPrivateIP: a dotted quad (octets tells which), or
\* none (a hop that did not answer)
AddressInputs ==
    {[addr |-> Dotted(q), octets |-> q] : q \in Quads}
        \cup {[addr |-> NoStr, octets |-> <<>>]}

\* a 16-bit group of an IPv6 address as text: lowercase hexadecimal without
\* leading zeros
HexDigits == <<"0", "1", "2", "3", "4", "5", "6", "7", "8", "9", "a", "b", "c", "d", "e", "f">>

RECURSIVE HexStr(_)
HexStr(n) == IF n < 16 THEN <<HexDigits[n + 1]>>
             ELSE Append(HexStr(n \div 16), HexDigits[(n % 16) + 1])

\* first groups at and around the edges of fe80::/10 (0xfe80 .. 0xfebf), and
\* some far from it
FirstGroups == {8193, 64512, 65151, 65152, 65153, 65168, 65184, 65200, 65215, 65216, 65282}

\* the IPv6 addresses given to isPrivateIP: group is the value of the first
\* 16-bit group, loopback tells the address ::1
Address6Inputs ==
    {[addr |-> HexStr(g) \o <<":", ":", "1">>, group |-> g, loopback |-> FALSE]
        : g \in FirstGroups}
    \cup {[addr |-> <<":", ":", "1">>, group |-> 0, loopback |-> TRUE],
          [addr |-> <<":", ":", "2">>, group |-> 0, loopback |-> FALSE],
          [addr |-> <<":", ":", "1", "0">>, group |-> 0, loopback |-> FALSE]}

\* the strings the identifying fields of a hub may hold (NoStr: the field is
\* missing, null or empty)
HostStrings ==
    {NoStr, IP_GOOGLE,
     <<"o", "n", "e", ".", "o", "n", "e">>,
     <<"9", "9", "9", ".", "9", "9", "9", ".", "9", "9", "9", ".", "9", "9", "9">>,
     <<"1", ".", "2", ".", "3">>,
     <<"1", ".", "2", ".", "3", ".", "4", ".", "5">>,
     <<"1", "2", "3", "4", ".", "1", ".", "1", ".", "1">>,
     <<"1", ".", "2", ".", "3", ".">>,
     <<"a", ".", "b", ".", "c", ".", "d">>}

HostnameStrings == {NoStr, <<"g", "w">>, Dotted(<<10, 0, 0, 1>>)}

IpStrings == {NoStr, IP_CLOUDFLARE, <<"f", "e", "8", "0", ":", ":", "1">>}

\* hubs that differ in their identifying fields
NamedHubs ==
    {Hub(h, n, i, Num(12500), Absent, Absent, Absent)
        : h \in HostStrings, n \in HostnameStrings, i \in IpStrings}

\* the values a latency field of a hub may hold
LatencyValues ==
    {Absent, NullVal, TextVal, InfVal, Num(12500), Num(0), Num(-5000), StrNum(7000),
     StrJunk(3000)}

\* hubs that differ in their latency fields
TimedHubs ==
    {Hub(IP_GOOGLE, NoStr, NoStr, a, l, b, w)
        : a \in LatencyValues, l \in LatencyValues, b \in LatencyValues, w \in LatencyValues}

\* hubs to follow another hub in a list
SecondHubs ==
    {Hub(NoStr, <<"g", "w">>, IP_CLOUDFLARE, Absent, Num(20000), Absent, Absent),
     Hub(IP_GOOGLE, NoStr, NoStr, Num(12500), Absent, Absent, Absent),
     Hub(NoStr, NoStr, NoStr, Absent, Absent, Absent, Absent)}

\* the hub lists given to parseMtrJson: none, one or two hubs
HubLists ==
    {<<>>} \cup {<<a>> : a \in NamedHubs \cup TimedHubs}
        \cup {<<a, b>> : a \in NamedHubs, b \in SecondHubs}

\* A hop of a path as the trace utility knows it: its position, the host token
\* it prints (a name, an address, or ??? for a hop that did not answer) and
\* its address when it is known apart from the token.
DnsGoogle == <<"d", "n", "s", ".", "g", "o", "o", "g", "l", "e">>

NameWithQuad == <<"h", "1", ".", "2", ".", "3", ".", "4", ".", "n", "e", "t">>

PathHosts ==
    {[token |-> IP_GOOGLE, addr |-> NoStr],
     [token |-> DnsGoogle, addr |-> IP_GOOGLE],
     [token |-> DnsGoogle, addr |-> NoStr],
     [token |-> <<"?", "?", "?">>, addr |-> NoStr],
     [token |-> NameWithQuad, addr |-> NoStr]}

\* the paths of two hops, at positions 1 and 2 or 1 and 3
Paths ==
    {<<[pos |-> 1, token |-> a.token, addr |-> a.addr],
       [pos |-> p, token |-> b.token, addr |-> b.addr]>>
        : a \in PathHosts, b \in PathHosts, p \in {2, 3}}

\* the path as the hubs of a structured payload: host is the token, ip the
\* address known apart from it, count the position
HubsOfPath(path) ==
    [i \in 1..Len(path) |->
        Hub(path[i].token, NoStr, path[i].addr, Num(12500), Absent, Absent, Absent)]

\* the path as the lines of a text report: "  N.|-- token (address)  12.5 ms"
LinesOfPath(path) ==
    [i \in 1..Len(path) |->
        <<" ", " ">> \o NatStr(path[i].pos) \o HopMarker \o <<" ">> \o path[i].token
            \o (IF path[i].addr = NoStr THEN <<>>
                ELSE <<" ", "(">> \o path[i].addr \o <<")">>)
            \o <<" ", " ", "1", "2", ".", "5", " ", "m", "s">>]

\* what geolocate may return: nothing, or the record a provider function makes
\* of a response
GeoReturns ==
    {NULL} \cup {CallProvider(n, r).value : n \in {"primary", "fallback"}, r \in AllResponses}

\* the hop lists runTraceroute may return to /trace
HopLists ==
    {Decoded[o].hops : o \in {OutLanGapGoogle, OutSamePublicTwice, OutTwoPublic,
                               OutTextReport, OutEmptyObject}}

\* enrichWithGeo when every call of geolocate returns geo: the loop from the
\* hop after the enriched ones to the end
RECURSIVE EnrichAll(_, _, _)
EnrichAll(hops, enriched, geo) ==
    LET skipped == PushPrivate(hops, enriched)
    IN  IF Len(skipped) = Len(hops) THEN skipped
        ELSE EnrichAll(hops, PushGeo(skipped, hops[Len(skipped) + 1], geo), geo)

FnInputs ==
    {[op |-> "provider", stage |-> "in", in |-> [name |-> n, resp |-> r], out |-> 0]
        : n \in {"primary", "fallback"}, r \in AllResponses}
    \cup {[op |-> "decode", stage |-> "in", in |-> o, out |-> 0] : o \in DecodeInputs}
    \cup {[op |-> "classify", stage |-> "in", in |-> a, out |-> 0] : a \in AddressInputs}
    \cup {[op |-> "structured", stage |-> "in", in |-> l, out |-> 0] : l \in HubLists}
    \cup {[op |-> "paths", stage |-> "in", in |-> q, out |-> 0] : q \in Paths}
    \cup {[op |-> "classify6", stage |-> "in", in |-> a, out |-> 0] : a \in Address6Inputs}
    \cup {[op |-> "respond", stage |-> "in", in |-> [hops |-> h, geo |-> g], out |-> 0]
              : h \in HopLists, g \in GeoReturns}

FnInit ==
    /\ ui = NoPage
    /\ now = 0
    /\ cache = EmptyObject
    /\ req = [p \in Procs |-> IdleReq]
    /\ started = 0
    /\ cop = [op |-> "none", key |-> NoStr, ret |-> NULL, size |-> 0]
    /\ written = EmptyObject
    /\ fn \in FnInputs

\* a provider function of geolocate is called and its fetch settles
ApplyProvider ==
    /\ fn.op = "provider" /\ fn.stage = "in"
    /\ fn' = [fn EXCEPT !.stage = "out", !.out = CallProvider(fn.in.name, fn.in.resp)]
    /\ UNCHANGED <<now, cache, req, started, cop, written, ui>>

\* runTraceroute decodes the output of a completed process
ApplyDecode ==
    /\ fn.op = "decode" /\ fn.stage = "in"
    /\ fn' = [fn EXCEPT !.stage = "out", !.out = Decode(fn.in)]
    /\ UNCHANGED <<now, cache, req, started, cop, written, ui>>

\* isPrivateIP is applied to an address
ApplyClassify ==
    /\ fn.op \in {"classify", "classify6"} /\ fn.stage = "in"
    /\ fn' = [fn EXCEPT !.stage = "out", !.out = isPrivateIP(fn.in.addr)]
    /\ UNCHANGED <<now, cache, req, started, cop, written, ui>>

\* /trace from the return of runTraceroute on: enrichWithGeo, the counts, the
\* response
ApplyRespond ==
    /\ fn.op = "respond" /\ fn.stage = "in"
    /\ fn' = [fn EXCEPT !.stage = "out",
                        !.out = TraceSuccess(IP_GOOGLE, fn.in.hops,
                                             EnrichAll(fn.in.hops, <<>>, fn.in.geo))]
    /\ UNCHANGED <<now, cache, req, started, cop, written, ui>>

\* parseMtrJson is applied to a parsed payload {report: {hubs: [...]}}
ApplyParseMtrJson ==
    /\ fn.op = "structured" /\ fn.stage = "in"
    /\ fn' = [fn EXCEPT !.stage = "out",
                        !.out = parseMtrJson([kind |-> "object", report |-> "object",
                                              hubs |-> "array", list |-> fn.in])]
    /\ UNCHANGED <<now, cache, req, started, cop, written, ui>>

\* both decoders are applied to the two renderings of one path
ApplyBothDecoders ==
    /\ fn.op = "paths" /\ fn.stage = "in"
    /\ fn' = [fn EXCEPT !.stage = "out",
                        !.out = [json |-> parseMtrJson([kind |-> "object", report |-> "object",
                                                        hubs |-> "array",
                                                        list |-> HubsOfPath(fn.in)]),
                                 text |-> parseMtrText(LinesOfPath(fn.in))]]
    /\ UNCHANGED <<now, cache, req, started, cop, written, ui>>

FnNext ==
    \/ ApplyBothDecoders
    \/ ApplyProvider
    \/ ApplyDecode
    \/ ApplyClassify
    \/ ApplyRespond
    \/ ApplyParseMtrJson

FnSpec == FnInit /\ [][FnNext]_vars

----------------------------------------------------------------------------
(* The front ends: src/script.js and the two later pages of                 *)
(* src/unnamed/part_000 (lines 302-674, "rebuilt", and lines 676-1234,      *)
(* "main").  A page is the record ui:                                       *)
(*   variant      which of the three pages is loaded                        *)
(*   disabled     the disabled flag of the trace button                     *)
(*   traces       number of calls of runTrace / runTraceroute so far; the   *)
(*                n-th call, the polyline, the markers, the packets and the *)
(*                timer it creates all carry the identity n                 *)
(*   fetching     the calls waiting for their fetch                         *)
(*   lines        the route polylines on the map                            *)
(*   lineLayer    lineLayer / routeLine / AppState.layers.routeLine: the    *)
(*                polyline the page holds, 0 for null                       *)
(*   markers      the sets of hop markers on the map                        *)
(*   markersLayer markersLayer / hopMarkers / AppState.layers.markers: the  *)
(*                hop marker sets the page holds                            *)
(*   packets      the packet markers on the map (script, rebuilt)           *)
(*   packetMarker packetMarker / packets: the packet markers held           *)
(*   timers       the intervals running (script, main), the animation       *)
(*                frames requested and not yet run (rebuilt)                *)
(*   animTimer    animTimer / animationFrame / AppState.animationTimer: the *)
(*                timer the page holds, 0 for null                          *)
(*   left         per interval: the segments its packet has still to travel *)
(*                (script); the phases its packets have still to go through, *)
(*                the wait of the delayed packets included (main)           *)
(*   states       per animate closure of rebuilt: the length of its         *)
(*                packetStates, in batches of NUM_PACKETS                   *)
(* One step of an interval stands for the ticks that move the packet along  *)
(* one segment.  The circle markers that the timer and the timeouts of main *)
(* add to and remove from the map (packets, trails, ripples, the staggered  *)
(* hop markers inside the layer group) are not part of the record.          *)

\* calls of runTrace / runTraceroute in one behaviour, the one at load included
MaxTraces == 3

TraceIds == 1..MaxTraces

UiVariants == {"script", "rebuilt", "main"}

\* what a fetch of /trace comes to: Failed when fetchTraceroute throws,
\* otherwise the number of hops that pass the filter of geoHops
Failed == 0 - 1
GeoHopCounts == 0..2
TraceOutcomes == {Failed} \cup GeoHopCounts

\* the globals of a page at their declarations
BlankPage(v) ==
    [variant |-> v, disabled |-> FALSE, traces |-> 0, fetching |-> {},
     lines |-> {}, lineLayer |-> 0, markers |-> {}, markersLayer |-> {},
     packets |-> {}, packetMarker |-> {}, timers |-> {}, animTimer |-> 0,
     left |-> [t \in TraceIds |-> 0], states |-> [t \in TraceIds |-> 0]]

\* script.js
clearRoute(u) ==
    [u EXCEPT !.lines = @ \ {u.lineLayer}, !.markers = @ \ u.markersLayer,
              !.packets = @ \ u.packetMarker, !.timers = @ \ {u.animTimer},
              !.lineLayer = 0, !.markersLayer = {}, !.packetMarker = {},
              !.animTimer = 0]

drawRoute(u, t) ==
    [u EXCEPT !.lines = @ \cup {t}, !.lineLayer = t,
              !.markers = @ \cup {t}, !.markersLayer = {t}]

animatePacket(u, t, n) ==
    IF n = 0 THEN u
    ELSE [u EXCEPT !.packets = @ \cup {t}, !.packetMarker = {t},
                   !.timers = @ \cup {t}, !.animTimer = t, !.left[t] = n - 1]

\* the callback of the interval of animatePacket
animTimerTick(u, k) ==
    IF u.left[k] = 0
    THEN [u EXCEPT !.timers = @ \ {u.animTimer}, !.animTimer = 0]
    ELSE [u EXCEPT !.left[k] = @ - 1]

\* part_000, rebuilt
clearAll(u) ==
    [u EXCEPT !.timers = @ \ {u.animTimer}, !.animTimer = 0,
              !.lines = @ \ {u.lineLayer}, !.lineLayer = 0,
              !.markers = @ \ u.markersLayer, !.markersLayer = {},
              !.packets = @ \ u.packetMarker, !.packetMarker = {}]

drawRouteRebuilt(u, t) ==
    [u EXCEPT !.lines = @ \cup {t}, !.lineLayer = t,
              !.markers = @ \cup {t}, !.markersLayer = @ \cup {t}]

animatePacketRebuilt(u, t, n) ==
    IF n < 2 THEN u
    ELSE [u EXCEPT !.packets = @ \cup {t}, !.packetMarker = @ \cup {t},
                   !.states[t] = Cardinality(u.packetMarker \cup {t}),
                   !.timers = @ \cup {t}, !.animTimer = t]

\* the callback animate of animatePacket: it throws at the first packet
\* beyond its packetStates, requests no frame when packets is empty, and
\* requests the next frame otherwise
animate(u, k) ==
    IF Cardinality(u.packetMarker) > u.states[k] \/ u.packetMarker = {}
    THEN [u EXCEPT !.timers = @ \ {k}]
    ELSE [u EXCEPT !.animTimer = k]

\* part_000, main
clearRouteMain(u) ==
    [u EXCEPT !.timers = @ \ {u.animTimer}, !.animTimer = 0,
              !.lines = @ \ {u.lineLayer}, !.markers = @ \ u.markersLayer,
              !.lineLayer = 0, !.markersLayer = {}]

drawRouteMain(u, t) ==
    [u EXCEPT !.lines = @ \cup {t}, !.lineLayer = t,
              !.markers = @ \cup {t}, !.markersLayer = {t}]

startPacketAnimation(u, t, n) ==
    IF n = 0 THEN u
    ELSE [u EXCEPT !.timers = @ \cup {t}, !.animTimer = t, !.left[t] = n]

\* the callback of the interval of startPacketAnimation
animationTimerTick(u, k) ==
    IF u.left[k] = 0
    THEN [u EXCEPT !.timers = @ \ {u.animTimer}, !.animTimer = 0]
    ELSE [u EXCEPT !.left[k] = @ - 1]

\* runTrace / runTraceroute up to the await of the fetch
ClearOf(u) ==
    CASE u.variant = "script" -> clearRoute(u)
      [] u.variant = "rebuilt" -> clearAll(u)
      [] u.variant = "main" -> clearRouteMain(u)

runTraceStart(u) ==
    [ClearOf([u EXCEPT !.disabled = TRUE])
        EXCEPT !.traces = @ + 1, !.fetching = @ \cup {u.traces + 1}]

\* runTrace / runTraceroute from the await on: try, catch and finally
DrawOf(u, t, n) ==
    CASE u.variant = "script" -> animatePacket(drawRoute(u, t), t, n)
      [] u.variant = "rebuilt" -> animatePacketRebuilt(drawRouteRebuilt(u, t), t, n)
      [] u.variant = "main" -> startPacketAnimation(drawRouteMain(u, t), t, n)

runTraceResume(u, t, o) ==
    [(IF o = Failed \/ o = 0 THEN u ELSE DrawOf(u, t, o))
        EXCEPT !.disabled = FALSE, !.fetching = @ \ {t}]

TimerOf(u, k) ==
    CASE u.variant = "script" -> animTimerTick(u, k)
      [] u.variant = "rebuilt" -> animate(u, k)
      [] u.variant = "main" -> animationTimerTick(u, k)

Aside == <<now, cache, req, started, cop, written, fn>>

\* the page has run its script: the trace of the default target is fetching
UiInit ==
    /\ now = 0
    /\ cache = EmptyObject
    /\ req = [p \in Procs |-> IdleReq]
    /\ started = 0
    /\ cop = [op |-> "none", key |-> NoStr, ret |-> NULL, size |-> 0]
    /\ written = EmptyObject
    /\ fn = [op |-> "none", stage |-> "none", in |-> 0, out |-> 0]
    /\ ui \in {runTraceStart(BlankPage(v)) : v \in UiVariants}

\* a click on the trace button; a disabled button fires no click event
Click ==
    /\ ui.traces < MaxTraces
    /\ ~ui.disabled
    /\ ui' = runTraceStart(ui)
    /\ UNCHANGED Aside

\* Enter in the target field: script.js calls button.click(), which does
\* nothing on a disabled button; the pages of part_000 call handleTrace
EnterKey ==
    /\ ui.traces < MaxTraces
    /\ ui.variant = "script" => ~ui.disabled
    /\ ui' = runTraceStart(ui)
    /\ UNCHANGED Aside

\* the fetch of a trace settles and its runTrace resumes
TraceResponse ==
    \E t \in ui.fetching, o \in TraceOutcomes :
        /\ ui' = runTraceResume(ui, t, o)
        /\ UNCHANGED Aside

\* an interval fires, or a requested animation frame runs
TimerFire ==
    \E k \in ui.timers :
        /\ ui' = TimerOf(ui, k)
        /\ UNCHANGED Aside

UiNext ==
    \/ Click
    \/ EnterKey
    \/ TraceResponse
    \/ TimerFire

UiSpec == UiInit /\ [][UiNext]_vars

----------------------------------------------------------------------------
(* The properties *)

\* request p enters geolocate in this step
Entering(p) == Len(req'[p].calls) = Len(req[p].calls) + 1

\* C1: a call of geolocate(ip) that finds an unexpired negative entry for ip
\* (every provider declined or threw in an earlier call, less than the
\* time-to-live ago) queries no provider and returns nothing.
C1_NegativeEntryShortCircuits ==
    \A p \in Procs :
        req[p].seen = "negative" =>
            /\ req[p].queried = <<>>
            /\ req[p].pc # "fetch"
            /\ req[p].geo = NULL

\* the records the fallback can return about ip
FallbackRecords(ip) ==
    {FallbackProvider(resp).value : resp \in Responses(ip)} \ {NULL}

\* the step in which the fallback's record is accepted after the primary failed
FallbackAccepts(p) ==
    /\ req[p].pc = "fetch"
    /\ req'[p].outcomes = <<"failed", "accepted">>

\* the record the fallback got accepted for the address p asks about in the
\* next state is at most the time-to-live old
FallbackStoredFor(p) ==
    /\ req'[p].ip \in DOMAIN written
    /\ written[req'[p].ip].by = "fallback"
    /\ now - written[req'[p].ip].at <= CACHE_TTL_MS

\* the call p enters returns the recorded record and queries no provider
ServedFromStore(p) ==
    /\ req'[p].pc = "geo_ret"
    /\ req'[p].geo = written[req'[p].ip].value
    /\ req'[p].queried = <<>>

\* C2 as stated: every call of geolocate(ip) made within the time-to-live of
\* the moment the fallback's record was stored returns that record without
\* querying a provider.
C2_EveryLaterCallServed ==
    [][\A p \in Procs : (Entering(p) /\ FallbackStoredFor(p)) => ServedFromStore(p)]_vars

\* C2, amended: when the primary declines or throws and the fallback's record
\* is accepted, geolocate returns the fallback's normalized record and stores
\* it with the current time; and if no other call for the address was waiting
\* for a provider when it was stored, every call of geolocate(ip) made within
\* the time-to-live of that moment returns that record without querying a
\* provider.
C2_FallbackRecordStoredAndServed ==
    [][\A p \in Procs :
          /\ FallbackAccepts(p) =>
                /\ req'[p].pc = "geo_ret"
                /\ req'[p].geo \in FallbackRecords(req[p].ip)
                /\ req[p].ip \in DOMAIN cache'
                /\ cache'[req[p].ip] = [value |-> req'[p].geo, timestamp |-> now]
          /\ (Entering(p) /\ FallbackStoredFor(p) /\ written[req'[p].ip].alone) =>
                ServedFromStore(p)]_vars

\* a call has been served the fallback's record a full time-to-live after it
\* was stored
C2_Witness ==
    \E p \in Procs :
        /\ req[p].pc = "geo_ret" /\ req[p].seen = "positive" /\ req[p].queried = <<>>
        /\ req[p].ip \in DOMAIN written
        /\ written[req[p].ip].by = "fallback" /\ written[req[p].ip].alone
        /\ now - written[req[p].ip].at = CACHE_TTL_MS
        /\ req[p].geo = written[req[p].ip].value
        /\ req[p].geo \in FallbackRecords(req[p].ip)

\* C3: get(key) after set(key, value), with no later set of the key, returns
\* the value while the entry is at most the time-to-live old and nothing once
\* it is older; a key never set gives nothing.
C3_GetAfterSet ==
    cop.op = "get" =>
        cop.ret = IF cop.key \in DOMAIN written
                     /\ now - written[cop.key].at <= CACHE_TTL_MS
                  THEN written[cop.key].value
                  ELSE NULL

\* a get of a key whose record was set more than the time-to-live ago, and
\* not again, has returned nothing
C3_Witness ==
    /\ cop.op = "get" /\ cop.key \in DOMAIN written
    /\ written[cop.key].value # NULL
    /\ now - written[cop.key].at > CACHE_TTL_MS
    /\ cop.ret = NULL

\* C4: a call of geolocate queries the primary first and the fallback second,
\* each at most once; a provider is queried only when every provider before
\* it declined or threw, and none after one was accepted.
C4_ProviderOrder ==
    \A p \in Procs :
        LET r == req[p]
        IN  /\ r.queried \in {<<>>, <<"primary">>, <<"primary", "fallback">>}
            /\ Len(r.outcomes) <= Len(r.queried)
            /\ \A i \in 1..Len(r.outcomes) :
                  \/ r.outcomes[i] = "failed"
                  \/ r.outcomes[i] = "accepted" /\ i = Len(r.queried) /\ r.pc # "fetch"
            /\ r.pc = "fetch" => Len(r.queried) = Len(r.outcomes) + 1

\* a call has queried the primary, which failed, then the fallback, accepted
C4_Witness ==
    \E p \in Procs :
        /\ req[p].seen \in {"absent", "expired", "negative"}
        /\ req[p].queried = <<"primary", "fallback">>
        /\ req[p].outcomes = <<"failed", "accepted">>
        /\ req[p].pc = "geo_ret"

\* the step in which the last provider of the list declines or throws
Exhausts(p) ==
    /\ req[p].pc = "fetch"
    /\ Len(req'[p].outcomes) = Len(Providers)
    /\ \A i \in 1..Len(Providers) : req'[p].outcomes[i] = "failed"

\* C6: when every provider has declined or thrown, geolocate stores a negative
\* entry for the address, stamped with the current time, and returns nothing.
C6_ExhaustionStoresNegative ==
    [][\A p \in Procs :
          Exhausts(p) =>
              /\ req'[p].pc = "geo_ret"
              /\ req'[p].geo = NULL
              /\ req[p].ip \in DOMAIN cache'
              /\ cache'[req[p].ip] = [value |-> NULL, timestamp |-> now]]_vars

\* a call in which both providers failed returns nothing, the entry of its
\* address negative and stamped with the time of the call, later than an
\* earlier entry could be
C6_Witness ==
    \E p \in Procs :
        /\ req[p].pc = "geo_ret" /\ req[p].outcomes = <<"failed", "failed">>
        /\ req[p].geo = NULL
        /\ now > 0
        /\ req[p].ip \in DOMAIN cache
        /\ cache[req[p].ip] = [value |-> NULL, timestamp |-> now]

\* the fields geolocate adds to a hop
GeoFields == {"lat", "lon", "city", "region", "country", "countryCode"}

NotPrivate(h) == ~h.isPrivate

\* the call of geolocate made for hop i of a hop list: its position among the
\* calls of the request
CallOf(hops, i) == CountIf(SubSeq(hops, 1, i), NotPrivate)

\* a /trace request whose trace utility completed is never on the failure
\* path, and its response is a success that holds every hop, in order and with
\* its fields; a hop for which geolocate returned nothing has no geo field, a
\* hop for which it returned a record has that record's fields
C7_EnrichmentNeverFails ==
    \A p \in Procs :
        LET r == req[p]
        IN  (r.kind = "trace" /\ r.exec = "completed") =>
                /\ r.pc \in {"enrich", "fetch", "geo_ret", "done"}
                /\ r.res.status \in {0, 200}
                /\ r.pc = "done" =>
                      /\ r.res.status = 200 /\ r.res.success = TRUE
                      /\ Len(r.res.hops) = Len(r.hops)
                      /\ Len(r.rets) = Len(r.calls)
                      /\ \A i \in 1..Len(r.hops) :
                            LET h == r.res.hops[i]
                                j == CallOf(r.res.hops, i)
                            IN  /\ \A k \in DOMAIN r.hops[i] : h[k] = r.hops[i][k]
                                /\ ~h.isPrivate =>
                                      /\ j \in 1..Len(r.rets)
                                      /\ r.calls[j] = h.ip
                                      /\ r.rets[j] = NULL => DOMAIN h \cap GeoFields = {}
                                      /\ r.rets[j] # NULL =>
                                            \A k \in GeoFields : h[k] = r.rets[j][k]

\* how far a /trace request is from its response: the hops still to enrich,
\* and within a hop the providers still to ask
Remaining(r) ==
    IF r.pc = "done" THEN 0
    ELSE (Len(r.hops) - Len(r.enriched)) * (Len(Providers) + 2)
            + (IF r.pc = "enrich" THEN Len(Providers) + 2
               ELSE IF r.pc = "fetch" THEN Len(Providers) + 2 - r.prov
               ELSE 1)

\* C7: a /trace request whose trace utility completed never takes the failure
\* path, whatever the providers do; every step it takes (a provider settling
\* in any way, geolocate returning) brings it nearer its response; and the
\* response is the success C7_EnrichmentNeverFails describes.
C7_TraceCompletes ==
    /\ []C7_EnrichmentNeverFails
    /\ [][\A p \in Procs :
            (req[p].kind = "trace" /\ req[p].exec = "completed" /\ req'[p] # req[p]) =>
                \/ req[p].pc = "done" /\ req'[p] = IdleReq
                \/ /\ req'[p].kind = "trace" /\ req'[p].exec = "completed"
                   /\ Remaining(req'[p]) < Remaining(req[p])]_vars

\* a trace of three hops has been answered with success although the lookup
\* of its public hop failed: the hop is there, without geo fields
C7_Witness ==
    \E p \in Procs :
        /\ req[p].kind = "trace" /\ req[p].exec = "completed" /\ req[p].pc = "done"
        /\ req[p].res.status = 200 /\ req[p].res.success = TRUE
        /\ Len(req[p].res.hops) = 3
        /\ req[p].rets = <<NULL>>
        /\ req[p].res.hops[3].ip = IP_GOOGLE
        /\ DOMAIN req[p].res.hops[3] \cap GeoFields = {}

\* a hop enrichWithGeo must not look up: it has no address, or a private one
IsPrivateHop(hop) == hop.ip = NoStr \/ isPrivateIP(hop.ip)

\* C8: in what enrichWithGeo has built, a hop is marked isPrivate exactly when
\* it has no address or a private one, and such a hop has no lat and no lon;
\* geolocate is called only for the addresses of the other hops, once a hop
\* and in order, so that no provider is asked about, and no cache entry made
\* for, a private address or a missing one.
C8_PrivateHopsNeverLookedUp ==
    \A p \in Procs :
        LET r == req[p]
            looked == IF r.pc \in {"fetch", "geo_ret"}
                      THEN Len(r.enriched) + 1 ELSE Len(r.enriched)
            public == {i \in 1..looked : ~IsPrivateHop(r.hops[i])}
        IN  r.kind = "trace" =>
                /\ \A i \in 1..Len(r.enriched) :
                      /\ r.enriched[i].isPrivate = IsPrivateHop(r.hops[i])
                      /\ r.enriched[i].isPrivate =>
                            DOMAIN r.enriched[i] \cap GeoFields = {}
                /\ Len(r.calls) = Cardinality(public)
                /\ \A i \in public :
                      r.calls[Cardinality({k \in public : k <= i})] = r.hops[i].ip
                /\ \A i \in 1..Len(r.calls) :
                      r.calls[i] # NoStr /\ ~isPrivateIP(r.calls[i])
                /\ \A i \in 1..Len(r.hops) :
                      IsPrivateHop(r.hops[i]) => r.hops[i].ip \notin DOMAIN cache
                /\ r.pc = "done" /\ r.res.status = 200 => r.res.hops = r.enriched

\* a trace through a private hop, a hop without address and a public hop has
\* been answered: the first two are marked private and bare, the third has
\* coordinates, and geolocate was called once, for the public address
C8_Witness ==
    \E p \in Procs :
        /\ req[p].kind = "trace" /\ req[p].pc = "done" /\ req[p].res.status = 200
        /\ Len(req[p].res.hops) = 3
        /\ req[p].res.hops[1].ip = IP_LAN /\ req[p].res.hops[1].isPrivate
        /\ req[p].res.hops[2].ip = NoStr /\ req[p].res.hops[2].isPrivate
        /\ DOMAIN req[p].res.hops[1] \cap GeoFields = {}
        /\ DOMAIN req[p].res.hops[2] \cap GeoFields = {}
        /\ ~req[p].res.hops[3].isPrivate /\ "lat" \in DOMAIN req[p].res.hops[3]
        /\ req[p].calls = <<IP_GOOGLE>>
        /\ DOMAIN cache = {IP_GOOGLE}

\* the ways the trace utility fails
ExecFailures == {"spawn", "exit", "timeout"}

\* C9: when the trace utility cannot be started, exits abnormally or is killed
\* at the timeout, the /trace request ends with the failure response, which
\* has no hops and no stats, and has made no call of geolocate and no cache
\* operation; and every response of a /trace request that ran the utility is
\* either this failure or a success with every hop.
C9_ExecFailureIsCleanFailure ==
    \A p \in Procs :
        LET r == req[p]
        IN  r.kind = "trace" =>
                /\ r.exec \in ExecFailures =>
                      /\ r.pc = "done"
                      /\ r.res.status = 500 /\ r.res.success = FALSE
                      /\ DOMAIN r.res \cap {"hops", "stats"} = {}
                      /\ r.calls = <<>> /\ r.cacheOps = 0
                /\ (r.pc = "done" /\ r.exec # "none") =>
                      \/ /\ r.res.status = 500 /\ r.res.success = FALSE
                         /\ r.exec \in ExecFailures
                         /\ DOMAIN r.res \cap {"hops", "stats"} = {}
                      \/ /\ r.res.status = 200 /\ r.res.success = TRUE
                         /\ r.exec = "completed"
                         /\ "error" \notin DOMAIN r.res
                         /\ Len(r.res.hops) = Len(r.hops)
                         /\ r.res.stats.totalHops = Len(r.hops)

\* a trace whose utility was killed at the timeout has been answered with the
\* failure, while the cache holds what another request put there
C9_Witness ==
    \E p \in Procs :
        /\ req[p].kind = "trace" /\ req[p].exec = "timeout" /\ req[p].pc = "done"
        /\ req[p].res.status = 500 /\ req[p].res.success = FALSE
        /\ "hops" \notin DOMAIN req[p].res
        /\ req[p].calls = <<>> /\ req[p].cacheOps = 0
        /\ cache # EmptyObject

\* the response a provider function was given, and what the function did
ProviderCase == fn.op = "provider" /\ fn.stage = "out"

\* the response is usable but for its failure signal
UsableShape(resp) ==
    /\ resp.net /\ resp.ok /\ resp.json = "object"
    /\ resp.latitude.t = "num" /\ resp.longitude.t = "num"

\* the record is the normalized one: the six fields, the coordinates those of
\* the response
Normalized(record, resp) ==
    /\ DOMAIN record = GeoFields
    /\ record.lat = resp.latitude.n /\ record.lon = resp.longitude.n

\* C5 as stated: a provider function returns a record only for a response with
\* an ok status, without failure signal (neither a success flag that is false
\* nor an error field that is set) and with numeric latitude and longitude; it
\* returns no record for any other response, and a record it returns has
\* exactly the fields lat, lon, city, region, country, countryCode.
C5_NoRecordOnAnyFailureSignal ==
    ProviderCase =>
        LET resp == fn.in.resp
            good == UsableShape(resp) /\ ~(resp.success = "false" \/ resp.error)
        IN  /\ ~good => fn.out.value = NULL
            /\ fn.out.value # NULL => Normalized(fn.out.value, resp)

\* the failure signal a provider function looks for: the primary a success
\* flag that is false, the fallback an error field that is set
OwnFailureSignal(name, resp) ==
    IF name = "primary" THEN resp.success = "false" ELSE resp.error

\* C5, amended: a provider function returns a record exactly for a response
\* with an ok status, without the failure signal of that provider's own
\* convention (primary: success flag false; fallback: error field set) and with
\* numeric latitude and longitude; for any other response it declines or
\* throws, and a record it returns has exactly the fields lat, lon, city,
\* region, country, countryCode.
C5_RecordOnlyFromUsableResponse ==
    ProviderCase =>
        LET resp == fn.in.resp
            good == UsableShape(resp) /\ ~OwnFailureSignal(fn.in.name, resp)
        IN  /\ ~good => fn.out.value = NULL
            /\ good => ~fn.out.threw /\ fn.out.value # NULL
            /\ fn.out.value # NULL => Normalized(fn.out.value, resp)

\* the fallback has returned the normalized record of a usable response whose
\* longitude is the number 0
C5_Witness ==
    /\ ProviderCase /\ fn.in.name = "fallback"
    /\ UsableShape(fn.in.resp) /\ ~fn.in.resp.error
    /\ fn.in.resp.longitude = Num(0)
    /\ fn.out.value # NULL
    /\ Normalized(fn.out.value, fn.in.resp)

\* an output was decoded
DecodeCase == fn.op = "decode" /\ fn.stage = "out"

\* the structured decode of the output fails: the text is not JSON, or the
\* JSON has no report with a hop list, or the decoder throws on it
StructuredFails(stdout) ==
    \/ ~stdout.parses
    \/ stdout.json.kind # "object" \/ stdout.json.report # "object"
    \/ stdout.json.hubs # "array"
    \/ \E i \in 1..Len(stdout.json.list) : stdout.json.list[i].isNull

\* C10: runTraceroute tries the structured decode first, and when that fails,
\* on text that is not JSON as on JSON without a report with a hop list, the
\* hops it returns are what parseMtrText gives for the same output; when it
\* succeeds they are what parseMtrJson gives.
C10_TextDecodeOnStructuredFailure ==
    DecodeCase =>
        /\ fn.out.tried # <<>> /\ fn.out.tried[1] = "json"
        /\ StructuredFails(fn.in) => fn.out.hops = parseMtrText(fn.in.text)
        /\ ~StructuredFails(fn.in) =>
              fn.out.hops = parseMtrJson(fn.in.json) /\ fn.out.tried = <<"json">>

\* a report in text form was decoded: the structured decode failed and the two
\* hops the text decoder finds were returned
C10_Witness ==
    /\ DecodeCase /\ fn.in = OutTextReport
    /\ StructuredFails(fn.in)
    /\ fn.out.tried = <<"json", "text">>
    /\ Len(fn.out.hops) = 2
    /\ fn.out.hops[2].ip = IP_GOOGLE

\* C11: whatever the output of a trace utility that completed, runTraceroute
\* returns a hop list and the request does not take the failure path; and when
\* the decoding yields no hop, the structured decoder alone or both having
\* run, the response is a success with an empty hop list and the counts
\* totalHops, publicHops and geolocatedHops all 0.
C11_DecodeFailureIsNoError ==
    \A p \in Procs :
        LET r == req[p]
        IN  (r.kind = "trace" /\ r.exec = "completed") =>
                /\ r.tried \in {<<"json">>, <<"json", "text">>}
                /\ r.res.status # 500
                /\ (r.pc = "done" /\ r.hops = <<>>) =>
                      /\ r.res.status = 200 /\ r.res.success = TRUE
                      /\ r.res.hops = <<>>
                      /\ r.res.stats.totalHops = 0
                      /\ r.res.stats.publicHops = 0
                      /\ r.res.stats.geolocatedHops = 0
                      /\ r.calls = <<>>

\* output that neither decoder finds a hop in (the structured decode threw,
\* the text decoder found no hop line) has been answered with the empty
\* success
C11_Witness ==
    \E p \in Procs :
        /\ req[p].kind = "trace" /\ req[p].exec = "completed" /\ req[p].pc = "done"
        /\ req[p].tried = <<"json", "text">> /\ req[p].hops = <<>>
        /\ req[p].res.status = 200 /\ req[p].res.success = TRUE
        /\ req[p].res.hops = <<>>
        /\ req[p].res.stats = [totalHops |-> 0, publicHops |-> 0, geolocatedHops |-> 0]

\* C12: in every hop list a decoder produces, parseMtrJson's as parseMtrText's,
\* the hop numbers are 1, 2, 3, ... along the list.
C12_HopNumbersContiguous ==
    DecodeCase => \A i \in 1..Len(fn.out.hops) : fn.out.hops[i].hop = i

\* an address was classified
ClassifyCase == fn.op = "classify" /\ fn.stage = "out"

\* the octets a.b.c.d lie in 10.0.0.0/8, 127.0.0.0/8, 169.254.0.0/16,
\* 172.16.0.0/12 or 192.168.0.0/16
InPrivateRange(o) ==
    \/ o[1] = 10
    \/ o[1] = 127
    \/ o[1] = 169 /\ o[2] = 254
    \/ o[1] = 172 /\ o[2] \in 16..31
    \/ o[1] = 192 /\ o[2] = 168

\* C13: isPrivateIP is true of a dotted quad (octets in decimal, without
\* leading zeros) exactly when it lies in 10.0.0.0/8, 127.0.0.0/8,
\* 169.254.0.0/16, 172.16.0.0/12 or 192.168.0.0/16; and true of no address.
C13_PrivateRanges ==
    ClassifyCase =>
        fn.out = IF fn.in.addr = NoStr THEN TRUE ELSE InPrivateRange(fn.in.octets)

\* 172.31.255.255, the last address of 172.16.0.0/12, was classified private
C13_Witness ==
    /\ ClassifyCase
    /\ fn.in.octets = <<172, 31, 255, 255>>
    /\ fn.in.addr = <<"1", "7", "2", ".", "3", "1", ".", "2", "5", "5", ".", "2", "5", "5">>
    /\ fn.out = TRUE

\* C14: in a /trace success, stats.totalHops is the number of hops the trace
\* returned, which is the number of hops of the result, and stats.publicHops
\* is the number of hops of the result whose isPrivate is false.
C14_TotalAndPublicCounts ==
    \A p \in Procs :
        LET r == req[p]
        IN  (r.kind = "trace" /\ r.pc = "done" /\ r.res.status = 200) =>
                /\ r.res.stats.totalHops = Len(r.hops)
                /\ r.res.stats.totalHops = Len(r.res.hops)
                /\ r.res.stats.publicHops =
                      Cardinality({i \in 1..Len(r.res.hops) : ~r.res.hops[i].isPrivate})

\* a trace through a private hop, a silent hop and a public hop was answered
\* with totalHops 3 and publicHops 1
C14_Witness ==
    \E p \in Procs :
        /\ req[p].kind = "trace" /\ req[p].pc = "done" /\ req[p].res.status = 200
        /\ Len(req[p].res.hops) = 3
        /\ req[p].res.hops[1].ip = IP_LAN /\ req[p].res.hops[1].isPrivate
        /\ req[p].res.hops[2].ip = NoStr /\ req[p].res.hops[2].isPrivate
        /\ ~req[p].res.hops[3].isPrivate
        /\ req[p].res.stats.totalHops = 3
        /\ req[p].res.stats.publicHops = 1

\* a response of /trace was built from a hop list and the results of geolocate
RespondCase == fn.op = "respond" /\ fn.stage = "out"

\* C15: stats.geolocatedHops is the number of hops of the result that carry a
\* latitude and a longitude, a coordinate that is the number 0 included.
C15_GeolocatedCountsZeroCoordinates ==
    RespondCase =>
        fn.out.stats.geolocatedHops =
            Cardinality({i \in 1..Len(fn.out.hops) :
                            {"lat", "lon"} \subseteq DOMAIN fn.out.hops[i]})

\* the hop the j-th call of geolocate of a request is for: the j-th hop that
\* has an address that is not private (0 if there is none)
HopOfCall(hops, j) ==
    LET is == {i \in 1..Len(hops) : ~IsPrivateHop(hops[i])
                                    /\ Cardinality({k \in 1..i : ~IsPrivateHop(hops[k])}) = j}
    IN  IF is = {} THEN 0 ELSE CHOOSE i \in is : TRUE

\* C16: within a /trace request at most one call of geolocate is under way,
\* waiting for at most one provider; the calls are for the public hops in
\* hop order, and a call is started only when every hop before its own has
\* been enriched, the previous call having returned.
C16_LookupsSequential ==
    \A p \in Procs :
        LET r == req[p]
        IN  r.kind = "trace" =>
                /\ Len(r.rets) <= Len(r.calls)
                /\ Len(r.calls) <= Len(r.rets) + 1
                /\ Len(r.calls) = Len(r.rets) + 1 <=> r.pc \in {"fetch", "geo_ret"}
                /\ \A j \in 1..Len(r.calls) :
                      /\ HopOfCall(r.hops, j) # 0
                      /\ r.calls[j] = r.hops[HopOfCall(r.hops, j)].ip
                /\ r.pc \in {"fetch", "geo_ret"} =>
                      /\ Len(r.enriched) = HopOfCall(r.hops, Len(r.calls)) - 1
                      /\ r.ip = r.calls[Len(r.calls)]
                /\ r.pc = "fetch" => r.prov \in 1..Len(Providers)
                                       /\ r.queried[Len(r.queried)] = Providers[r.prov]

\* the lookup of the second public hop of a trace is waiting for a provider:
\* the first hop is enriched, its lookup has returned
C16_Witness ==
    \E p \in Procs :
        /\ req[p].kind = "trace" /\ req[p].pc = "fetch"
        /\ Len(req[p].hops) = 2
        /\ Len(req[p].calls) = 2 /\ Len(req[p].rets) = 1
        /\ Len(req[p].enriched) = 1

\* a character a target may consist of: a letter, a digit, or one of . - : _
AllowedChar(c) ==
    \/ c \in {".", "-", ":", "_"}
    \/ c \in {"0", "1", "2", "3", "4", "5", "6", "7", "8", "9"}
    \/ IsLetter(c)

\* the target is empty or has a character that is not allowed
BadTargetString(t) == t = NoStr \/ \E i \in 1..Len(t) : ~AllowedChar(t[i])

\* C17: runTraceroute is invoked only with a target that is not empty and has
\* allowed characters only; a request with any other target is answered with
\* status 400 without a process spawned, a call of geolocate or a cache
\* operation, and a request is answered with 400 for such a target only.
C17_OnlyValidatedTargetsRun ==
    \A p \in Procs :
        LET r == req[p]
        IN  r.kind = "trace" =>
                IF r.exec # "none"
                THEN ~BadTargetString(r.target) /\ r.res.status # 400
                ELSE /\ BadTargetString(Trim(r.raw))
                     /\ r.pc = "done" /\ r.res.status = 400
                     /\ r.target = NoStr /\ r.hops = <<>>
                     /\ r.calls = <<>> /\ r.cacheOps = 0

\* a request for "a;ls" has been answered with 400, nothing run for it
C17_Witness ==
    \E p \in Procs :
        /\ req[p].kind = "trace" /\ req[p].raw = <<"a", ";", "l", "s">>
        /\ req[p].pc = "done" /\ req[p].res.status = 400
        /\ req[p].exec = "none" /\ req[p].cacheOps = 0

\* C18: a request that has invoked runTraceroute has had exactly one process
\* spawned for it, and once execAsync has settled with the timeout the trace
\* utility is not running.
C18_NoOrphanAfterTimeout ==
    \A p \in Procs :
        LET r == req[p]
        IN  (r.kind = "trace" /\ r.exec # "none") =>
                /\ r.spawns = 1
                /\ r.exec = "timeout" => r.util # "running"

\* the records a provider function can return for an address
RecordsFor(ip) ==
    {out.value : out \in {o \in {CallProvider(Providers[i], resp) :
                                    i \in 1..Len(Providers), resp \in Responses(ip)} :
                             ~o.threw /\ Truthy(o.value)}}

\* an entry as a geolocate call for address k writes it: a value and a
\* timestamp, the value the negative marker or a whole record obtained for k,
\* with the coordinates the providers have for k and for no other address
WholeEntryFor(k, e) ==
    /\ DOMAIN e = {"value", "timestamp"}
    /\ e.timestamp \in 0..now
    /\ \/ e.value = NULL
       \/ /\ e.value \in RecordsFor(k)
          /\ DOMAIN e.value = GeoFields
          /\ e.value.lat = BodyOf(k).latitude.n /\ e.value.lon = BodyOf(k).longitude.n
          /\ \A k2 \in PublicIPs \ {k} : e.value \notin RecordsFor(k2)

\* a step changes the cache under one address at most, the address of a
\* geolocate call that runs in the step; an entry it writes holds what that
\* call returns, stamped with the time of the step
ChangesOwnEntryOnly ==
    LET keys == DOMAIN cache \cup DOMAIN cache'
        changed == {k \in keys : \/ k \notin DOMAIN cache \/ k \notin DOMAIN cache'
                                 \/ cache[k] # cache'[k]}
    IN  /\ Cardinality(changed) <= 1
        /\ \A k \in changed :
              \E p \in Procs :
                  /\ req'[p] # req[p] /\ req'[p].ip = k
                  /\ k \in DOMAIN cache' =>
                        /\ req[p].pc = "fetch" /\ req[p].ip = k /\ req'[p].pc = "geo_ret"
                        /\ cache'[k] = [value |-> req'[p].geo, timestamp |-> now]

\* C19: whatever the interleaving of the requests, every cache entry is one
\* whole value written by a geolocate call for the address it is stored under
\* (the negative marker or a record obtained for that address, never one
\* obtained for another address), and every step changes the entry of the
\* address of the call that takes it only.
C19_EntriesWholeAndOwn ==
    /\ [](\A k \in DOMAIN cache : k \in PublicIPs /\ WholeEntryFor(k, cache[k]))
    /\ [][ChangesOwnEntryOnly]_vars

\* two calls overlap: one for IP_CLOUDFLARE has just stored its record while
\* one for IP_GOOGLE, whose entry is negative, awaits a provider
C19_Witness ==
    \E p, q \in Procs :
        /\ p # q
        /\ req[p].pc = "geo_ret" /\ req[p].ip = IP_CLOUDFLARE
        /\ req[p].outcomes # <<>> /\ req[p].outcomes[Len(req[p].outcomes)] = "accepted"
        /\ req[q].pc = "fetch" /\ req[q].ip = IP_GOOGLE
        /\ DOMAIN cache = PublicIPs
        /\ cache[IP_GOOGLE].value = NULL
        /\ cache[IP_CLOUDFLARE].value = req[p].geo
        /\ req[p].geo \in RecordsFor(IP_CLOUDFLARE)

\* a get of a key whose last set found an entry in the Map returns the value
\* of that set while at most the time-to-live has passed since it, whatever
\* the entry it found, and nothing afterwards
GetAfterReplace ==
    (cop.op = "get" /\ cop.key \in DOMAIN written /\ written[cop.key].over # "absent") =>
        IF now - written[cop.key].at <= CACHE_TTL_MS
        THEN cop.ret = written[cop.key].value
        ELSE cop.ret = NULL

\* a set leaves under its key the new value stamped with the time of the set,
\* whatever was there, and leaves the other keys alone
SetReplaces ==
    cop'.op = "set" =>
        /\ cop'.key \in DOMAIN cache'
        /\ cache'[cop'.key] = [value |-> cop'.ret, timestamp |-> now]
        /\ DOMAIN cache' = DOMAIN cache \cup {cop'.key}
        /\ \A k \in DOMAIN cache \ {cop'.key} : cache'[k] = cache[k]

\* C20: set replaces the entry of its key, whether that was fresh or stale,
\* positive or negative, by the new value with the time of the set; a get
\* after a second set returns the second value for a full time-to-live from
\* the second set, and nothing afterwards.
C20_SetReplacesAndRestartsAge ==
    /\ []GetAfterReplace
    /\ [][SetReplaces]_vars

\* a record was set over a stale entry holding another value, and a get a full
\* time-to-live after that set has returned the record
C20_Witness ==
    /\ cop.op = "get" /\ cop.key \in DOMAIN written
    /\ written[cop.key].over = "expired"
    /\ written[cop.key].prev # written[cop.key].value
    /\ written[cop.key].value # NULL
    /\ now - written[cop.key].at = CACHE_TTL_MS
    /\ cop.ret = written[cop.key].value

\* a step removes an entry only as a get of the entry's own key, made when the
\* entry is older than the time-to-live; it removes no other entry
RemovedByOwnLateGet ==
    \A k \in DOMAIN cache :
        k \notin DOMAIN cache' =>
            /\ cop'.op = "get" /\ cop'.key = k /\ cop'.ret = NULL
            /\ now - cache[k].timestamp > CACHE_TTL_MS
            /\ DOMAIN cache' = DOMAIN cache \ {k}

\* size() counts every entry of the Map, the expired ones included
SizeCountsAll == cop.op = "size" => cop.size = Cardinality(DOMAIN cache)

\* C21: an entry leaves the cache only by a get of its own key made after its
\* age exceeds the time-to-live; set, size and a get of another key remove
\* nothing, so an expired entry that is not read stays and size() counts it.
C21_EvictionLazyOnly ==
    /\ []SizeCountsAll
    /\ [][RemovedByOwnLateGet]_vars

\* size() has counted two entries, one of them expired, after a get of the
\* other key
C21_Witness ==
    /\ cop.op = "size" /\ cop.size = 2
    /\ DOMAIN cache = CacheKeys
    /\ now - cache[IP_GOOGLE].timestamp > CACHE_TTL_MS
    /\ now - cache[IP_CLOUDFLARE].timestamp <= CACHE_TTL_MS

\* the fields of a hop as runTraceroute returns it
HopFields == {"hop", "ip", "hostname", "rtt"}

\* C22: the output of enrichWithGeo has the length and the order of the hop
\* list; each output hop has the index, address, display name and round-trip
\* value of the input hop at its position, and a boolean isPrivate that is true
\* when the address is absent or private and false otherwise.
C22_EnrichPreservesPath ==
    RespondCase =>
        LET hops == fn.in.hops
            enriched == fn.out.hops
        IN  /\ Len(enriched) = Len(hops)
            /\ \A i \in 1..Len(hops) :
                  /\ HopFields \cup {"isPrivate"} \subseteq DOMAIN enriched[i]
                  /\ \A f \in HopFields : enriched[i][f] = hops[i][f]
                  /\ enriched[i].isPrivate \in BOOLEAN
                  /\ enriched[i].isPrivate = (hops[i].ip = NoStr \/ isPrivateIP(hops[i].ip))

\* a private hop, a hop without address and a public hop that got a record
\* have been enriched
C22_Witness ==
    /\ RespondCase
    /\ fn.in.hops = Decoded[OutLanGapGoogle].hops
    /\ Truthy(fn.in.geo)
    /\ Len(fn.out.hops) = 3
    /\ fn.out.hops[1].isPrivate /\ fn.out.hops[1].ip = IP_LAN
    /\ fn.out.hops[2].isPrivate /\ fn.out.hops[2].ip = NoStr
    /\ ~fn.out.hops[3].isPrivate /\ fn.out.hops[3].ip = IP_GOOGLE
    /\ "lat" \in DOMAIN fn.out.hops[3]

\* an IPv6 address was classified
Classify6Case == fn.op = "classify6" /\ fn.stage = "out"

\* C23: isPrivateIP is true of the IPv6 loopback address ::1 and of every
\* address of fe80::/10 (first group fe80 to febf), and false of every other
\* IPv6 address.
C23_IPv6Ranges ==
    Classify6Case =>
        fn.out = (fn.in.loopback \/ fn.in.group \in 65152..65215)

\* a hub list was decoded by parseMtrJson
StructuredCase == fn.op = "structured" /\ fn.stage = "out"

\* the first of host label, hostname field and address field that is there
FirstAvailable(hub) ==
    IF hub.host # NoStr THEN hub.host
    ELSE IF hub.hostname # NoStr THEN hub.hostname
    ELSE hub.ip

\* s has dotted-quad form: four groups of one to three digits, three dots
DottedQuadForm(s) ==
    LET dots == {i \in 1..Len(s) : s[i] = "."}
        next(i) == CHOOSE j \in (dots \cup {Len(s) + 1}) :
                       j > i /\ \A k \in dots : k > i => j <= k
    IN  /\ Cardinality(dots) = 3
        /\ \A i \in (1..Len(s)) \ dots : s[i] \in {"0", "1", "2", "3", "4", "5", "6", "7", "8", "9"}
        /\ \A i \in dots \cup {0} : next(i) - i - 1 \in 1..3

\* C24: parseMtrJson gives one hop per hub, in the order of the hubs; a hop's
\* display name is the first there is of host label, hostname field and
\* address field (none if there is none), and its address is that string when
\* it has dotted-quad form, otherwise the address field if there is one,
\* otherwise none.
C24_StructuredNameAndAddress ==
    StructuredCase =>
        /\ Len(fn.out) = Len(fn.in)
        /\ \A i \in 1..Len(fn.in) :
              LET name == FirstAvailable(fn.in[i])
              IN  /\ fn.out[i].hostname = name
                  /\ fn.out[i].ip = IF DottedQuadForm(name) THEN name ELSE fn.in[i].ip
                  /\ fn.out[i].hop = i

\* two hubs were decoded: the first named by an address, though it has another
\* address field, the second by a host name, its address from the address field
C24_Witness ==
    /\ StructuredCase
    /\ Len(fn.in) = 2 /\ Len(fn.out) = 2
    /\ fn.in[1].host = IP_GOOGLE /\ fn.in[1].ip = IP_CLOUDFLARE
    /\ fn.out[1].ip = IP_GOOGLE /\ fn.out[1].hostname = IP_GOOGLE
    /\ fn.in[2].host = NoStr /\ fn.in[2].hostname = <<"g", "w">> /\ fn.in[2].ip = IP_CLOUDFLARE
    /\ fn.out[2].ip = IP_CLOUDFLARE /\ fn.out[2].hostname = <<"g", "w">>

\* the candidate is a valid number: a finite number, or a numeral as a string
IsNumber(v) == v.t \in {"num", "str"}

\* the latency candidates of a hub in their order
Candidates(hub) == <<hub.avg, hub.last, hub.best, hub.wst>>

\* C25: the round-trip value of a hop of parseMtrJson is the first of average,
\* last, best and worst that is a finite number, candidates that are missing
\* or are not valid numbers being skipped, and is absent when there is none.
C25_FirstValidLatency ==
    StructuredCase =>
        \A i \in 1..Len(fn.in) :
            LET c == Candidates(fn.in[i])
                valid == {k \in 1..4 : IsNumber(c[k])}
            IN  IF valid = {} THEN fn.out[i].rtt = NullVal
                ELSE fn.out[i].rtt = Num(c[CHOOSE k \in valid : \A j \in valid : k <= j].n)

\* the round-trip value is absent or a number that is not negative
AbsentOrNonNegative(rtt) == rtt = NullVal \/ (rtt.t = "num" /\ rtt.n >= 0)

\* C26: every hop parseMtrJson or parseMtrText produces has a round-trip value
\* that is absent or a number that is not negative.
C26_RoundTripNonNegative ==
    /\ StructuredCase => \A i \in 1..Len(fn.out) : AbsentOrNonNegative(fn.out[i].rtt)
    /\ DecodeCase => \A i \in 1..Len(fn.out.hops) : AbsentOrNonNegative(fn.out.hops[i].rtt)

\* the output went to the text decoder
TextCase == DecodeCase /\ fn.out.tried = <<"json", "text">>

\* the line starts with whitespace (or none), an integer, and the marker
\* right after it; a is the number of whitespace characters, b the position
\* of the integer's last digit
Qualifies(line, a, b) ==
    /\ a < b
    /\ \A k \in 1..a : IsSpace(line[k])
    /\ \A k \in (a + 1)..b : IsDigit(line[k])
    /\ HasAt(line, b + 1, HopMarker)

QualifyingLine(line) == \E a \in 0..Len(line), b \in 1..Len(line) : Qualifies(line, a, b)

\* the leading integer of a qualifying line
IndexOfLine(line) ==
    LET ab == CHOOSE ab \in (0..Len(line)) \X (1..Len(line)) : Qualifies(line, ab[1], ab[2])
    IN  DecVal(line, ab[1] + 1, ab[2] - ab[1])

\* the first substring of the line that has dotted-quad form, taken as long as
\* it goes, or none
AddressOfLine(line) ==
    LET quads == {ij \in (1..Len(line)) \X (1..Len(line)) :
                     ij[1] <= ij[2] /\ DottedQuadForm(SubSeq(line, ij[1], ij[2]))}
    IN  IF quads = {} THEN NoStr
        ELSE LET first == CHOOSE ij \in quads :
                              \A kl \in quads : \/ ij[1] < kl[1]
                                                \/ ij[1] = kl[1] /\ ij[2] >= kl[2]
             IN  SubSeq(line, first[1], first[2])

\* the token right after the marker of a qualifying line: past the whitespace
\* after the marker, the characters up to the next whitespace or parenthesis
TokenAfterMarker(line) ==
    LET ab == CHOOSE ab \in (0..Len(line)) \X (1..Len(line)) : Qualifies(line, ab[1], ab[2])
        t == ab[2] + 5 + SpaceRun(line, ab[2] + 5)
    IN  SubSeq(line, t, t + TokenRun(line, t) - 1)

\* C27: parseMtrText gives one hop for each qualifying line, in the order of
\* the lines, and none for another line; the hop's index is the line's leading
\* integer, its address the first dotted-quad substring of the line (none if
\* there is none), its display name the token right after the marker, or the
\* address when there is no such token.
C27_TextHopPerQualifyingLine ==
    TextCase =>
        LET lines == SelectSeq(fn.in.text, QualifyingLine)
            hops == fn.out.hops
        IN  /\ Len(hops) = Len(lines)
            /\ \A i \in 1..Len(lines) :
                  /\ hops[i].hop = IndexOfLine(lines[i])
                  /\ hops[i].ip = AddressOfLine(lines[i])
                  /\ hops[i].hostname = IF TokenAfterMarker(lines[i]) # NoStr
                                        THEN TokenAfterMarker(lines[i])
                                        ELSE AddressOfLine(lines[i])

\* a path was decoded from both of its renderings
PathsCase == fn.op = "paths" /\ fn.stage = "out"

\* C28: for a structured payload and a text report of the same path,
\* parseMtrJson and parseMtrText give hop lists of the same length whose hops
\* agree on index, address and display name.
C28_DecodersAgree ==
    PathsCase =>
        /\ Len(fn.out.json) = Len(fn.out.text)
        /\ \A i \in 1..Len(fn.out.json) :
              /\ fn.out.json[i].hop = fn.out.text[i].hop
              /\ fn.out.json[i].ip = fn.out.text[i].ip
              /\ fn.out.json[i].hostname = fn.out.text[i].hostname

\* the hops of a result the count of geolocated hops takes: those with a
\* truthy latitude and longitude
CountedGeolocated(hops) ==
    {i \in 1..Len(hops) : /\ {"lat", "lon"} \subseteq DOMAIN hops[i]
                          /\ hops[i].lat # 0 /\ hops[i].lon # 0}

\* the hops of a result the count of public hops takes: those with an address
\* that is not private
CountedPublic(hops) ==
    {i \in 1..Len(hops) : hops[i].ip # NoStr /\ ~isPrivateIP(hops[i].ip)}

\* C29: in a /trace success 0 <= geolocatedHops <= publicHops <= totalHops, and
\* every hop counted as geolocated is counted as public.
C29_CountsOrdered ==
    RespondCase =>
        LET stats == fn.out.stats
        IN  /\ 0 <= stats.geolocatedHops
            /\ stats.geolocatedHops <= stats.publicHops
            /\ stats.publicHops <= stats.totalHops
            /\ stats.geolocatedHops = Cardinality(CountedGeolocated(fn.out.hops))
            /\ stats.publicHops = Cardinality(CountedPublic(fn.out.hops))
            /\ CountedGeolocated(fn.out.hops) \subseteq CountedPublic(fn.out.hops)

\* a result of three hops of which one is public and geolocated
C29_Witness ==
    /\ RespondCase
    /\ fn.out.stats = [totalHops |-> 3, publicHops |-> 1, geolocatedHops |-> 1]
    /\ CountedGeolocated(fn.out.hops) = {3}
    /\ fn.out.hops[1].ip = IP_LAN

\* a record was accepted and stored for address k at most the time-to-live ago
RecentPositiveWrite(k) ==
    k \in DOMAIN written /\ now - written[k].at <= CACHE_TTL_MS

\* a get of k now returns a record
GetReturnsRecord(k) == GeoCacheGet(cache, k, now).ret # NULL

\* C30 as stated: once a record for an address has been stored, a get of the
\* address within the time-to-live of that write returns a record, whatever
\* calls of geolocate for the address overlap.
C30_PositiveNeverReplacedByNegative ==
    \A k \in PublicIPs : RecentPositiveWrite(k) => GetReturnsRecord(k)

\* C30, amended: once a record for an address has been stored while no other
\* call of geolocate for the address was waiting for a provider, the entry of
\* the address is that record with the time of the write, and a get returns
\* it, for the time-to-live of the write.
C30_PositiveKeptWhenWrittenAlone ==
    \A k \in PublicIPs :
        (RecentPositiveWrite(k) /\ written[k].alone) =>
            /\ k \in DOMAIN cache
            /\ cache[k] = [value |-> written[k].value, timestamp |-> written[k].at]
            /\ GeoCacheGet(cache, k, now).ret = written[k].value
            /\ written[k].value # NULL

\* a record stored by the primary with no other call waiting is in the cache a
\* full time-to-live later, and a second call has found it
C30_Witness ==
    \E p \in Procs :
        /\ req[p].seen = "positive" /\ req[p].ip = IP_GOOGLE
        /\ RecentPositiveWrite(IP_GOOGLE)
        /\ written[IP_GOOGLE].alone /\ written[IP_GOOGLE].by = "primary"
        /\ now - written[IP_GOOGLE].at = CACHE_TTL_MS
        /\ cache[IP_GOOGLE].value = written[IP_GOOGLE].value

----------------------------------------------------------------------------
(* C31: the front ends *)

\* the page holds every route layer and every timer that is on the map or
\* running, and there is at most one of each
OneRouteHeld(u) ==
    /\ Cardinality(u.lines) <= 1
    /\ Cardinality(u.timers) <= 1
    /\ u.lines \subseteq {u.lineLayer}
    /\ u.markers \subseteq u.markersLayer
    /\ u.timers \subseteq {u.animTimer}

\* this step is the start of a trace
TraceStarts == ui'.traces = ui.traces + 1

\* C31: in every front-end variant, whatever the clicks, Enter keys and trace
\* responses, at most one route and one packet animation are live at a time:
\* the start of a trace leaves no route on the map and no timer running, and
\* no timer or route layer is on without a reference a later clear can use.
C31_OneRouteOneAnimation ==
    /\ [](OneRouteHeld(ui))
    /\ [][TraceStarts => (ui'.lines = {} /\ ui'.markers = {} /\ ui'.timers = {})]_vars

====
